---- MODULE Spec2Model ----
(***************************************************************************)
(* Model of the phlex record tree (product_store) and of the nodes that    *)
(* consume records (declared_output and the nodes registered by the        *)
(* Python binding).                                                        *)
(***************************************************************************)
EXTENDS Integers, Sequences, FiniteSets, Bags, TLC

VARIABLES stores,       \* heap of product_store objects; a pointer is an index, 0 is nullptr
          last,         \* the most recent product_store operation and its result
          kind,         \* which node this is: an output node or a node of the Python binding
          concurrency,  \* concurrency the node was constructed with
          queue,        \* messages put to the node and not yet taken by a body
          inflight,     \* bodies that were started and have not returned
          calls,        \* messages the user function was invoked with, in invocation order
          emitted,      \* messages for which the body returned its continue_msg
          arrived,      \* number of messages put to the node so far
          failId,       \* the record on which the Python callable fails (-1: on none)
          pyerr,        \* the Python error that failure leaves behind
          next,         \* number of the next record the source emits
          tq,           \* records waiting at the Python transform
          trun,         \* records the Python transform is being invoked on
          sq,           \* messages waiting at the node downstream of the transform
          srun,         \* messages the downstream node is being invoked on
          seen,         \* messages the downstream node has completed
          poisoned,     \* records marked poisoned by the scheduler
          failure,      \* the first failure recorded by the scheduler
          result,       \* what execute() returned ("running" until it returns)
          registry,     \* the nodes registered with the module, in registration order
          pyret,        \* what the latest call into the Python module returned
          mdcall,       \* the latest md_transform request and the registry size before it
          build,        \* what the graph builder returned ("unbuilt" until it ran)
          invoked,      \* registry positions of the nodes whose callable has run
          scenario,     \* the job that runs: its providers and its registered algorithms
          ndebug,       \* whether the build compiles assert() out
          emitn,        \* number of the next cell the source emits
          ports,        \* messages waiting at each input port of each node
          active,       \* invocations that were started and have not returned
          log,          \* bag of the invocations made so far: node, cell, arguments
          aborted,      \* whether a failed assert() ended the process
          payload,      \* the value each store holds for each product name
          callee,       \* the callable registered as the transform
          inbound,      \* the store the transform's inbound message refers to
          targs,        \* the arguments the transform's callable was invoked with
          tseen,        \* the values the transform's callable returned
          oseen,        \* the values the observer was invoked with
          cbs,          \* m_callable of each py_callback object ("dead": not alive)
          refs,         \* references the py_callback objects hold on each Python callable
          touch,        \* the latest operation of the binding on Python objects
          conversion    \* the latest conversion between a C++ value and a Python object

vars == <<stores, last, kind, concurrency, queue, inflight, calls, emitted, arrived,
          failId, pyerr, next, tq, trun, sq, srun, seen, poisoned, failure, result,
          registry, pyret, mdcall, build, invoked,
          scenario, ndebug, emitn, ports, active, log, aborted,
          payload, callee, inbound, targs, tseen, oseen,
          cbs, refs, touch, conversion>>

graphVars == <<registry, pyret, mdcall, build, invoked>>

flowVars == <<scenario, ndebug, emitn, ports, active, log, aborted>>

regVars == <<payload, callee, inbound, targs, tseen, oseen>>

bindVars == <<cbs, refs, touch, conversion>>

engineVars == <<failId, pyerr, next, tq, trun, sq, srun, seen, poisoned, failure, result>>

storeVars == <<stores, last>>
nodeVars == <<kind, concurrency, queue, inflight, calls, emitted, arrived>>

(***************************************************************************)
(* Bounds and input sets                                                   *)
(***************************************************************************)
MaxStores == 3
MaxMsgs == 3
NumRecords == 10

LevelNumbers == {0, 1}
LevelNames == {"run", "event"}
Sources == {"src", "alg"}
ProductNames == {"a", "b"}
ProductSets == {{}, {"a"}, {"a", "b"}}
Stages == {"process", "flush"}

(***************************************************************************)
(* level_id: an ordered path of (number, name) pairs rooted at the empty    *)
(* path.                                                                   *)
(***************************************************************************)
level_id_base == <<>>

level_id_make_child(id, n, name) == Append(id, <<n, name>>)

level_id_depth(id) == Len(id)

level_id_level_name(id) == IF id = <<>> THEN "job" ELSE id[Len(id)][2]

(***************************************************************************)
(* product_store                                                           *)
(***************************************************************************)
nullptr == 0

\* product_store(parent, id, source, stage, products)
product_store(parent, id, source, processing_stage, new_products) ==
  [parent |-> parent, products |-> new_products, id |-> id,
   source |-> source, stage |-> processing_stage]

\* product_store(parent, new_level_number, new_level_name, source, products)
product_store_child(heap, parent, new_level_number, new_level_name, source, new_products) ==
  [parent |-> parent, products |-> new_products,
   id |-> level_id_make_child(heap[parent].id, new_level_number, new_level_name),
   source |-> source, stage |-> "process"]

\* product_store(parent, new_level_number, new_level_name, source, stage):
\* products_ is not named in the initialiser list and is default-constructed
product_store_child_stage(heap, parent, new_level_number, new_level_name, source, processing_stage) ==
  [parent |-> parent, products |-> {},
   id |-> level_id_make_child(heap[parent].id, new_level_number, new_level_name),
   source |-> source, stage |-> processing_stage]

base == product_store(nullptr, level_id_base, "", "process", {})

make_flush_keeps_stage(heap, s) ==
  product_store(heap[s].parent, heap[s].id, "[inserted]", heap[s].stage, {})

make_flush_keeps_products(heap, s) ==
  product_store(heap[s].parent, heap[s].id, "[inserted]", "flush", heap[s].products)

make_flush_under_self(heap, s) ==
  product_store(s, heap[s].id, "[inserted]", "flush", {})

make_flush(heap, s) ==
  product_store(heap[s].parent, heap[s].id, "[inserted]", "flush", {})

make_continuation_keeps_products(heap, s, source, new_products) ==
  product_store(heap[s].parent, heap[s].id, source, "process", heap[s].products)

make_continuation(heap, s, source, new_products) ==
  product_store(heap[s].parent, heap[s].id, source, "process", new_products)

make_child(heap, s, new_level_number, new_level_name, source, new_products) ==
  product_store_child(heap, s, new_level_number, new_level_name, source, new_products)

make_child_stage_sibling(heap, s, new_level_number, new_level_name, source, processing_stage) ==
  product_store_child_stage(heap, IF heap[s].parent = nullptr THEN s ELSE heap[s].parent,
                            new_level_number, new_level_name, source, processing_stage)

make_child_stage(heap, s, new_level_number, new_level_name, source, processing_stage) ==
  product_store_child_stage(heap, s, new_level_number, new_level_name, source, processing_stage)

level_name(store) == level_id_level_name(store.id)

is_flush(store) == store.stage = "flush"

contains_product(store, product_name) == product_name \in store.products


(***************************************************************************)
(* Nodes: a flow-graph function node built with a concurrency limit and a  *)
(* body.  Messages put to the node wait in a FIFO queue; a body is started *)
(* for the message at the head when the limit allows it.                   *)
(***************************************************************************)
serial == 1

unlimited == 0

PyKinds == {"py_converter", "py_transform", "py_observer"}

\* concurrency of the nodes registered through the Python module
py_concurrency(k) == serial

\* concurrencies an output node is built with
OutputConcurrencies == {serial, 2, unlimited}

\* the node starts another body only below its concurrency limit
may_start_unbounded(c, running) == TRUE

may_start(c, running) == c = unlimited \/ running < c

\* declared_output's body: the user function is called for non-flush stores only
output_invokes_always(store) == TRUE

output_invokes(store) == ~is_flush(store)

\* nodes of the engine other than outputs: flush markers are propagated and
\* not passed to the user callable
engine_invokes(store) == ~is_flush(store)

invokes(k, store) == IF k = "output" THEN output_invokes(store) ELSE engine_invokes(store)

\* The record tree the node's messages refer to: the base store, a child
\* that holds a product, a child of that child, and the flush markers of both.
NodeHeap ==
  LET h1 == <<base>>
      h2 == Append(h1, make_child(h1, 1, 0, "run", "src", {"a"}))
      h3 == Append(h2, make_child(h2, 2, 0, "event", "src", {"a", "b"}))
      h4 == Append(h3, make_flush(h3, 3))
  IN  Append(h4, make_flush(h4, 2))


(***************************************************************************)
(* The Python binding's callback                                           *)
(***************************************************************************)
\* the errors a failed Python call can leave behind: whether a message can
\* be fetched, and the message (the text of the exception, possibly empty)
PyErrs == {[fetched |-> TRUE, msg |-> "boom"],
           [fetched |-> TRUE, msg |-> ""],
           [fetched |-> FALSE, msg |-> ""]}

\* msg_from_py_error(msg): writes the message of the pending error to msg
\* and returns whether there was one
msg_from_py_error(err) == [ok |-> err.fetched, msg |-> err.msg]

\* py_callback::call, given what PyObject_CallFunctionObjArgs returned
\* ("NULL" or an object) and the error it left behind
call(pyresult, err) ==
  LET error_msg == IF pyresult = "NULL"
                   THEN IF ~msg_from_py_error(err).ok
                        THEN "Unknown python error"
                        ELSE msg_from_py_error(err).msg
                   ELSE ""
  IN  IF error_msg # ""
      THEN [kind |-> "throw", what |-> error_msg, value |-> "NULL"]
      ELSE [kind |-> "return", what |-> "", value |-> pyresult]

(***************************************************************************)
(* Operations on the record tree                                           *)
(***************************************************************************)
NoOp == [op |-> "none", self |-> 0, other |-> 0, result |-> 0, n |-> 0, name |-> "",
         source |-> "", stage |-> "", products |-> {}]

MakeFlush(s) ==
  /\ Len(stores) < MaxStores
  /\ stores' = Append(stores, make_flush(stores, s))
  /\ last' = [NoOp EXCEPT !.op = "make_flush", !.self = s, !.result = Len(stores) + 1]
  /\ UNCHANGED <<flowVars, regVars, bindVars, graphVars, nodeVars, engineVars>>

MakeContinuation(s, source, prods) ==
  /\ Len(stores) < MaxStores
  /\ stores' = Append(stores, make_continuation(stores, s, source, prods))
  /\ last' = [NoOp EXCEPT !.op = "make_continuation", !.self = s,
                          !.result = Len(stores) + 1, !.source = source,
                          !.products = prods]
  /\ UNCHANGED <<flowVars, regVars, bindVars, graphVars, nodeVars, engineVars>>

MakeChildTakesProducts(s, n, name, source, prods) ==
  /\ Len(stores) < MaxStores
  /\ stores' = Append([stores EXCEPT ![s].products = {}],
                      make_child(stores, s, n, name, source, prods \cup stores[s].products))
  /\ last' = [NoOp EXCEPT !.op = "make_child", !.self = s,
                          !.result = Len(stores) + 1, !.n = n, !.name = name,
                          !.source = source, !.products = prods]
  /\ UNCHANGED <<flowVars, regVars, bindVars, graphVars, nodeVars, engineVars>>

MakeChild(s, n, name, source, prods) ==
  /\ Len(stores) < MaxStores
  /\ stores' = Append(stores, make_child(stores, s, n, name, source, prods))
  /\ last' = [NoOp EXCEPT !.op = "make_child", !.self = s,
                          !.result = Len(stores) + 1, !.n = n, !.name = name,
                          !.source = source, !.products = prods]
  /\ UNCHANGED <<flowVars, regVars, bindVars, graphVars, nodeVars, engineVars>>

MakeChildStage(s, n, name, source, stage) ==
  /\ Len(stores) < MaxStores
  /\ stores' = Append(stores, make_child_stage(stores, s, n, name, source, stage))
  /\ last' = [NoOp EXCEPT !.op = "make_child_stage", !.self = s,
                          !.result = Len(stores) + 1, !.n = n, !.name = name,
                          !.source = source, !.stage = stage]
  /\ UNCHANGED <<flowVars, regVars, bindVars, graphVars, nodeVars, engineVars>>

NoFailure == [node |-> "", record |-> -1, what |-> ""]

EngineIdle ==
  /\ failId = -1
  /\ pyerr = [fetched |-> FALSE, msg |-> ""]
  /\ next = 0
  /\ tq = <<>>
  /\ trun = {}
  /\ sq = <<>>
  /\ srun = {}
  /\ seen = {}
  /\ poisoned = {}
  /\ failure = NoFailure
  /\ result = "running"

NodeIdle ==
  /\ kind = "output"
  /\ concurrency = serial
  /\ queue = <<>>
  /\ inflight = {}
  /\ calls = <<>>
  /\ emitted = {}
  /\ arrived = 0

\* no call into the Python module was made yet
NoCall ==
  [req |-> [callable |-> FALSE, concurrency |-> "absent", name |-> "",
            input_labels |-> <<>>, annotations |-> <<>>, ret |-> "",
            output_labels |-> <<>>],
   fn |-> "", before |-> 0, n |-> 0, output |-> "", indexed |-> FALSE, error |-> ""]

FlowIdle ==
  /\ scenario = "none"
  /\ ndebug = FALSE
  /\ emitn = 0
  /\ ports = <<>>
  /\ active = {}
  /\ log = EmptyBag
  /\ aborted = FALSE

\* no py_callback object exists and nothing was converted yet
NoTouch ==
  [op |-> "none", thread |-> "none", gil |-> FALSE, args |-> <<>>, received |-> <<>>,
   pyresult |-> "none", kind |-> "none", what |-> "", value |-> "none"]

NoConversion ==
  [op |-> "none", type |-> "none", v |-> 0, obj |-> [type |-> "none", value |-> 0],
   back |-> 0, err |-> "none", emitted |-> FALSE, thrown |-> FALSE]

BindIdle ==
  /\ cbs = <<>>
  /\ refs = <<>>
  /\ touch = NoTouch
  /\ conversion = NoConversion

RegIdle ==
  /\ payload = <<>>
  /\ callee = "none"
  /\ inbound = nullptr
  /\ targs = <<>>
  /\ tseen = <<>>
  /\ oseen = <<>>

GraphIdle ==
  /\ FlowIdle
  /\ RegIdle
  /\ BindIdle
  /\ registry = <<>>
  /\ pyret = "none"
  /\ mdcall = NoCall
  /\ build = [status |-> "unbuilt", errors |-> {}]
  /\ invoked = {}

StoreInit ==
  /\ stores = <<base>>
  /\ last = NoOp
  /\ NodeIdle
  /\ EngineIdle
  /\ GraphIdle

StoreNext ==
  \/ \E s \in 1..Len(stores) : MakeFlush(s)
  \/ \E s \in 1..Len(stores), source \in Sources, prods \in ProductSets :
       MakeContinuation(s, source, prods)
  \/ \E s \in 1..Len(stores), n \in LevelNumbers, name \in LevelNames,
        source \in Sources, prods \in ProductSets :
       MakeChild(s, n, name, source, prods)
  \/ \E s \in 1..Len(stores), n \in LevelNumbers, name \in LevelNames,
        source \in Sources, stage \in Stages :
       MakeChildStage(s, n, name, source, stage)

StoreSpec == StoreInit /\ [][StoreNext]_vars


(***************************************************************************)
(* Operations of a node                                                    *)
(***************************************************************************)
Running(phase) == {b \in inflight : b.phase = phase}

\* a message is put to the node's input port
Put(s) ==
  /\ arrived < MaxMsgs
  /\ arrived' = arrived + 1
  /\ queue' = Append(queue, [seq |-> arrived + 1, store |-> s])
  /\ UNCHANGED <<flowVars, regVars, bindVars, graphVars, stores, last, kind, concurrency, inflight, calls, emitted, engineVars>>

\* the node hands the message at the head of its queue to a new body
BodyTake ==
  /\ queue # <<>>
  /\ may_start(concurrency, Cardinality(inflight))
  /\ inflight' = inflight \cup {[msg |-> Head(queue), phase |-> "start"]}
  /\ queue' = Tail(queue)
  /\ UNCHANGED <<flowVars, regVars, bindVars, graphVars, stores, last, kind, concurrency, calls, emitted, arrived, engineVars>>

\* the body tests is_flush and calls the user function
BodyInvoke(b) ==
  /\ b.phase = "start"
  /\ invokes(kind, stores[b.msg.store])
  /\ calls' = Append(calls, b.msg)
  /\ inflight' = (inflight \ {b}) \cup {[b EXCEPT !.phase = "f"]}
  /\ UNCHANGED <<flowVars, regVars, bindVars, graphVars, stores, last, kind, concurrency, queue, emitted, arrived, engineVars>>

\* the body tests is_flush and skips the user function
BodySkip(b) ==
  /\ b.phase = "start"
  /\ ~invokes(kind, stores[b.msg.store])
  /\ inflight' = (inflight \ {b}) \cup {[b EXCEPT !.phase = "return"]}
  /\ UNCHANGED <<flowVars, regVars, bindVars, graphVars, stores, last, kind, concurrency, queue, calls, emitted, arrived, engineVars>>

\* the user function returns
UserReturn(b) ==
  /\ b.phase = "f"
  /\ inflight' = (inflight \ {b}) \cup {[b EXCEPT !.phase = "return"]}
  /\ UNCHANGED <<flowVars, regVars, bindVars, graphVars, stores, last, kind, concurrency, queue, calls, emitted, arrived, engineVars>>

\* the body returns its continue_msg
BodyReturn(b) ==
  /\ b.phase = "return"
  /\ inflight' = inflight \ {b}
  /\ emitted' = emitted \cup {b.msg}
  /\ UNCHANGED <<flowVars, regVars, bindVars, graphVars, stores, last, kind, concurrency, queue, calls, arrived, engineVars>>

NodeInit ==
  /\ GraphIdle
  /\ stores = NodeHeap
  /\ last = NoOp
  /\ kind \in {"output"} \cup PyKinds
  /\ concurrency \in (IF kind = "output" THEN OutputConcurrencies ELSE {py_concurrency(kind)})
  /\ queue = <<>>
  /\ inflight = {}
  /\ calls = <<>>
  /\ emitted = {}
  /\ arrived = 0
  /\ EngineIdle

NodeNext ==
  \/ \E s \in 2..Len(stores) : Put(s)
  \/ BodyTake
  \/ \E b \in inflight : BodyInvoke(b)
  \/ \E b \in inflight : BodySkip(b)
  \/ \E b \in inflight : UserReturn(b)
  \/ \E b \in inflight : BodyReturn(b)

NodeSpec == NodeInit /\ [][NodeNext]_vars

(***************************************************************************)
(* Claims about nodes                                                      *)
(***************************************************************************)
Messages == {[seq |-> n, store |-> s] : n \in 1..arrived, s \in 1..Len(stores)}

Invocations(m) == Cardinality({i \in 1..Len(calls) : calls[i] = m})

\* C1: an output node calls its user function exactly once for a message
\* whose store is not a flush store and never for a flush store, and it
\* returns a continue message in both cases, leaving the stores as they were.
C1_OutputSkipsFlush ==
  kind = "output" =>
    /\ \A m \in Messages :
         /\ Invocations(m) <= 1
         /\ is_flush(stores[m.store]) => Invocations(m) = 0
         /\ m \in emitted /\ ~is_flush(stores[m.store]) => Invocations(m) = 1
    /\ \A b \in Running("return") :
         ~is_flush(stores[b.msg.store]) => Invocations(b.msg) = 1
    /\ stores = NodeHeap

C1_Witness ==
  /\ kind = "output"
  /\ \E m \in emitted : is_flush(stores[m.store])
  /\ \E m \in emitted : ~is_flush(stores[m.store]) /\ Invocations(m) = 1

\* C2: a node with serial concurrency never has two bodies in flight and
\* calls its callable in the order the messages arrived; a node with
\* concurrency n never has more than n bodies in flight; every node of the
\* Python module is serial.
C2_ConcurrencyBound ==
  /\ kind \in PyKinds => concurrency = serial
  /\ concurrency # unlimited => Cardinality(inflight) <= concurrency
  /\ concurrency = serial =>
       \A i, j \in 1..Len(calls) : i < j => calls[i].seq < calls[j].seq

C2_Witness ==
  /\ kind = "py_transform"
  /\ Len(calls) >= 2
  /\ Cardinality(Running("f")) = 1
  /\ queue # <<>>

C2_WitnessBounded ==
  /\ kind = "output"
  /\ concurrency = 2
  /\ Cardinality(Running("f")) = 2
  /\ queue # <<>>

(***************************************************************************)
(* The scheduler: a source emits NumRecords records; a Python transform    *)
(* (serial) is invoked on each; the node downstream of it (the output      *)
(* converter, serial) consumes what the transform emits; execute() returns *)
(* when the source is exhausted and the graph has drained.                 *)
(***************************************************************************)
Records == 0..(NumRecords - 1)

\* what the user's Python function does on record r
python_call(r) == IF r = failId THEN "NULL" ELSE "obj"

SourceEmit ==
  /\ result = "running"
  /\ next < NumRecords
  /\ tq' = Append(tq, next)
  /\ next' = next + 1
  /\ UNCHANGED <<flowVars, regVars, bindVars, graphVars, storeVars, nodeVars, failId, pyerr, trun, sq, srun, seen,
                 poisoned, failure, result>>

TransformTake ==
  /\ tq # <<>>
  /\ may_start(py_concurrency("py_transform"), Cardinality(trun))
  /\ trun' = trun \cup {Head(tq)}
  /\ tq' = Tail(tq)
  /\ UNCHANGED <<flowVars, regVars, bindVars, graphVars, storeVars, nodeVars, failId, pyerr, next, sq, srun, seen,
                 poisoned, failure, result>>

\* the invocation returned: its output is emitted on the same record
TransformEmit(r) ==
  /\ r \in trun
  /\ call(python_call(r), pyerr).kind = "return"
  /\ trun' = trun \ {r}
  /\ sq' = Append(sq, [record |-> r, value |-> call(python_call(r), pyerr).value])
  /\ UNCHANGED <<flowVars, regVars, bindVars, graphVars, storeVars, nodeVars, failId, pyerr, next, tq, srun, seen,
                 poisoned, failure, result>>

\* the invocation threw: the record is poisoned, the first failure is kept,
\* nothing is emitted for the record
TransformFail(r) ==
  /\ r \in trun
  /\ call(python_call(r), pyerr).kind = "throw"
  /\ trun' = trun \ {r}
  /\ poisoned' = poisoned \cup {r}
  /\ failure' = IF failure = NoFailure
                THEN [node |-> "py_transform", record |-> r,
                      what |-> call(python_call(r), pyerr).what]
                ELSE failure
  /\ UNCHANGED <<flowVars, regVars, bindVars, graphVars, storeVars, nodeVars, failId, pyerr, next, tq, sq, srun, seen, result>>

DownstreamTake ==
  /\ sq # <<>>
  /\ may_start(py_concurrency("py_converter"), Cardinality(srun))
  /\ srun' = srun \cup {Head(sq)}
  /\ sq' = Tail(sq)
  /\ UNCHANGED <<flowVars, regVars, bindVars, graphVars, storeVars, nodeVars, failId, pyerr, next, tq, trun, seen,
                 poisoned, failure, result>>

DownstreamDone(m) ==
  /\ m \in srun
  /\ srun' = srun \ {m}
  /\ seen' = seen \cup {m}
  /\ UNCHANGED <<flowVars, regVars, bindVars, graphVars, storeVars, nodeVars, failId, pyerr, next, tq, trun, sq,
                 poisoned, failure, result>>

ExecuteReturn ==
  /\ result = "running"
  /\ next = NumRecords
  /\ tq = <<>> /\ trun = {} /\ sq = <<>> /\ srun = {}
  /\ result' = IF failure = NoFailure THEN "ok" ELSE "UserCallableFailed"
  /\ UNCHANGED <<flowVars, regVars, bindVars, graphVars, storeVars, nodeVars, failId, pyerr, next, tq, trun, sq, srun,
                 seen, poisoned, failure>>

EngineInit ==
  /\ GraphIdle
  /\ stores = <<base>>
  /\ last = NoOp
  /\ NodeIdle
  /\ failId \in Records
  /\ pyerr \in PyErrs
  /\ next = 0
  /\ tq = <<>>
  /\ trun = {}
  /\ sq = <<>>
  /\ srun = {}
  /\ seen = {}
  /\ poisoned = {}
  /\ failure = NoFailure
  /\ result = "running"

EngineNext ==
  \/ SourceEmit
  \/ TransformTake
  \/ \E r \in trun : TransformEmit(r)
  \/ \E r \in trun : TransformFail(r)
  \/ DownstreamTake
  \/ \E m \in srun : DownstreamDone(m)
  \/ ExecuteReturn

EngineSpec == EngineInit /\ [][EngineNext]_vars

(***************************************************************************)
(* Claims about failures of the user callable                              *)
(***************************************************************************)
Downstream == {sq[i] : i \in 1..Len(sq)} \cup srun \cup seen

\* C5: when the user callable fails on one record, the downstream node never
\* sees an output for that record, and once execute() has returned the
\* downstream node has seen every other record and execute() returned the
\* failure of that record.
C5_FailureIsLocal ==
  /\ \A m \in Downstream : m.record # failId
  /\ result # "running" =>
       /\ {m.record : m \in seen} = Records \ {failId}
       /\ result = "UserCallableFailed"
       /\ failure.record = failId

\* The same when the failed call leaves a message that is not empty.
C5_FailureWithMessageIsLocal ==
  (pyerr.fetched => pyerr.msg # "") => C5_FailureIsLocal

C5_WitnessWithMessage ==
  /\ result = "UserCallableFailed"
  /\ failId = 5
  /\ Cardinality(seen) = NumRecords - 1

(***************************************************************************)
(* Claims about the record tree                                            *)
(***************************************************************************)
Self == stores[last.self]
Result == stores[last.result]

\* C6: the store returned by s.make_flush() is a flush store with the id of s
\* and the parent of s, for every store s built from the base store.
C6_MakeFlushIsFlushSameId ==
  last.op = "make_flush" =>
    /\ is_flush(Result)
    /\ Result.id = Self.id
    /\ Result.parent = Self.parent

C6_Witness ==
  /\ last.op = "make_flush"
  /\ ~is_flush(Self)
  /\ Self.parent # nullptr
  /\ is_flush(Result)

\* C7: a store whose stage is flush contains no product, whatever the store
\* it was made from contained.
C7_FlushHoldsNoProducts ==
  \A i \in 1..Len(stores) :
    is_flush(stores[i]) => \A name \in ProductNames : ~contains_product(stores[i], name)

C7_Witness ==
  /\ last.op \in {"make_flush", "make_child_stage"}
  /\ is_flush(Result)
  /\ contains_product(Self, "a")

\* C8 as stated: make_continuation returns a store with the id, the parent
\* and the stage of s, holding the given products and the given source.
C8_ContinuationKeepsStage ==
  last.op = "make_continuation" =>
    /\ Result.id = Self.id
    /\ Result.parent = Self.parent
    /\ Result.stage = Self.stage
    /\ Result.products = last.products
    /\ Result.source = last.source

\* C8 amended: make_continuation returns a store with the id and the parent
\* of s whose stage is process (the stage of s only when s is a process
\* store), holding the given products and the given source.
C8_ContinuationIsProcess ==
  last.op = "make_continuation" =>
    /\ Result.id = Self.id
    /\ Result.parent = Self.parent
    /\ Result.stage = "process"
    /\ Result.products = last.products
    /\ Result.source = last.source

C8_Witness ==
  /\ last.op = "make_continuation"
  /\ is_flush(Self)
  /\ last.products # {}
  /\ last.products # Self.products
  /\ ~is_flush(Result)

\* C9: make_child returns a store whose parent is the store it was called
\* on, whose id is that store's id extended by (n, name), whose level name is
\* name, and whose stage is process (products overload) or the given stage
\* (stage overload).
C9_MakeChildLinksToParent ==
  last.op \in {"make_child", "make_child_stage"} =>
    /\ Result.parent = last.self
    /\ Result.id = level_id_make_child(Self.id, last.n, last.name)
    /\ level_name(Result) = last.name
    /\ last.op = "make_child" => Result.stage = "process"
    /\ last.op = "make_child_stage" => Result.stage = last.stage

C9_Witness ==
  /\ last.op = "make_child_stage"
  /\ last.stage = "flush"
  /\ Self.parent # nullptr
  /\ Result.parent = last.self
  /\ level_name(Result) # level_name(Self)

\* The store reached from store i by following parent links k times
\* (nullptr when the chain ends earlier).
RECURSIVE Ancestor(_, _, _)
Ancestor(heap, i, k) ==
  IF k = 0 \/ i = nullptr THEN i ELSE Ancestor(heap, heap[i].parent, k - 1)

\* C10: every store that has a parent is one level deeper than its parent, so
\* following the parent links from any store reaches a store without parent
\* after exactly depth steps.
C10_DepthIsParentDepthPlusOne ==
  \A i \in 1..Len(stores) :
    LET d == level_id_depth(stores[i].id) IN
    /\ stores[i].parent # nullptr =>
         d = level_id_depth(stores[stores[i].parent].id) + 1
    /\ Ancestor(stores, i, d) # nullptr
    /\ stores[Ancestor(stores, i, d)].parent = nullptr

C10_Witness ==
  \E i \in 1..Len(stores) :
    /\ level_id_depth(stores[i].id) = 2
    /\ stores[i].parent # nullptr
    /\ stores[stores[i].parent].parent # nullptr
    /\ stores[stores[stores[i].parent].parent].parent = nullptr

(***************************************************************************)
(* Queries on the record tree                                              *)
(***************************************************************************)
\* product_store::store_for_product: the walk starts at the store itself
RECURSIVE store_for_product_from(_, _, _)
store_for_product_from(heap, store, product_name) ==
  IF store = nullptr THEN nullptr
  ELSE IF contains_product(heap[store], product_name) THEN store
  ELSE store_for_product_from(heap, heap[store].parent, product_name)

store_for_product_skips_self(heap, s, product_name) ==
  store_for_product_from(heap, heap[s].parent, product_name)

store_for_product(heap, s, product_name) ==
  store_for_product_from(heap, s, product_name)

\* product_store::parent(level_name): the walk starts at parent_
RECURSIVE parent_from(_, _, _)
parent_from(heap, store, name) ==
  IF store = nullptr THEN nullptr
  ELSE IF level_name(heap[store]) = name THEN store
  ELSE parent_from(heap, heap[store].parent, name)

parent_by_level_name_from_self(heap, s, name) == parent_from(heap, s, name)

parent_by_level_name(heap, s, name) == parent_from(heap, heap[s].parent, name)

\* more_derived(a, b)
more_derived_first_on_tie(heap, a, b) ==
  IF level_id_depth(heap[a].id) >= level_id_depth(heap[b].id) THEN a ELSE b

more_derived(heap, a, b) ==
  IF level_id_depth(heap[a].id) > level_id_depth(heap[b].id) THEN a ELSE b

IsPrefix(p, q) == Len(p) <= Len(q) /\ SubSeq(q, 1, Len(p)) = p

\* the longest common prefix of two level ids
RECURSIVE CommonAncestorId(_, _)
CommonAncestorId(p, q) ==
  IF p = <<>> \/ q = <<>> \/ Head(p) # Head(q) THEN <<>>
  ELSE <<Head(p)>> \o CommonAncestorId(Tail(p), Tail(q))

QueryNames == {"job"} \cup LevelNames

StoreForProduct(s, product_name) ==
  /\ last' = [NoOp EXCEPT !.op = "store_for_product", !.self = s, !.name = product_name,
                          !.result = store_for_product(stores, s, product_name)]
  /\ UNCHANGED <<flowVars, regVars, bindVars, graphVars, stores, nodeVars, engineVars>>

ParentByLevelName(s, name) ==
  /\ last' = [NoOp EXCEPT !.op = "parent", !.self = s, !.name = name,
                          !.result = parent_by_level_name(stores, s, name)]
  /\ UNCHANGED <<flowVars, regVars, bindVars, graphVars, stores, nodeVars, engineVars>>

\* a node joins two input messages whose stores lie on one ancestor chain
\* and emits on the more derived of the two
JoinEmit(a, b) ==
  /\ IsPrefix(stores[a].id, stores[b].id) \/ IsPrefix(stores[b].id, stores[a].id)
  /\ last' = [NoOp EXCEPT !.op = "join", !.self = a, !.other = b,
                          !.result = more_derived(stores, a, b)]
  /\ UNCHANGED <<flowVars, regVars, bindVars, graphVars, stores, nodeVars, engineVars>>

\* the record tree is built with one source and one level number, then queried
TreeNext ==
  \/ \E s \in 1..Len(stores) : MakeFlush(s)
  \/ \E s \in 1..Len(stores), prods \in ProductSets : MakeContinuation(s, "alg", prods)
  \/ \E s \in 1..Len(stores), name \in LevelNames, prods \in ProductSets :
       MakeChild(s, 0, name, "src", prods)
  \/ \E s \in 1..Len(stores), name \in LevelNames, stage \in Stages :
       MakeChildStage(s, 0, name, "src", stage)
  \/ \E s \in 1..Len(stores), product_name \in ProductNames : StoreForProduct(s, product_name)
  \/ \E s \in 1..Len(stores), name \in QueryNames : ParentByLevelName(s, name)
  \/ \E a \in 1..Len(stores), b \in 1..Len(stores) : JoinEmit(a, b)

TreeSpec == StoreInit /\ [][TreeNext]_vars

\* the stores on the path from store i to the root, nearest first
PathLen(i) == level_id_depth(stores[i].id)

\* C11: store_for_product(name) returns the first store on the path from the
\* store itself to the root that contains name, and null when none does.
C11_StoreForProductIsNearest ==
  last.op = "store_for_product" =>
    LET holders == {k \in 0..PathLen(last.self) :
                      contains_product(stores[Ancestor(stores, last.self, k)], last.name)}
    IN  /\ holders = {} => last.result = nullptr
        /\ holders # {} =>
             \E k \in holders :
               /\ \A j \in holders : k <= j
               /\ last.result = Ancestor(stores, last.self, k)
        /\ contains_product(Self, last.name) => last.result = last.self

C11_Witness ==
  /\ last.op = "store_for_product"
  /\ last.result # nullptr
  /\ last.result # last.self
  /\ ~contains_product(Self, last.name)
  /\ contains_product(Result, last.name)

C11_WitnessShadow ==
  /\ last.op = "store_for_product"
  /\ last.result = last.self
  /\ Self.parent # nullptr
  /\ contains_product(stores[Self.parent], last.name)

\* C12: parent(level_name) returns the nearest strict ancestor whose level
\* name is level_name, null when there is none, and never the store itself.
C12_ParentIsNearestStrictAncestor ==
  last.op = "parent" =>
    LET matches == {k \in 1..PathLen(last.self) :
                      level_name(stores[Ancestor(stores, last.self, k)]) = last.name}
    IN  /\ last.result # last.self
        /\ matches = {} => last.result = nullptr
        /\ matches # {} =>
             \E k \in matches :
               /\ \A j \in matches : k <= j
               /\ last.result = Ancestor(stores, last.self, k)

C12_Witness ==
  /\ last.op = "parent"
  /\ level_name(Self) = last.name
  /\ last.result # nullptr
  /\ last.result = Self.parent
  /\ Self.parent # nullptr

C12_WitnessNull ==
  /\ last.op = "parent"
  /\ level_name(Self) = last.name
  /\ last.result = nullptr

\* C13: make_child, make_continuation and make_flush leave every store that
\* exists before the call as it was.
C13_ExistingStoresUnchanged ==
  [][\A i \in 1..Len(stores) : i \in 1..Len(stores') /\ stores'[i] = stores[i]]_vars

C13_Witness ==
  /\ last.op = "make_child"
  /\ Self.products # {}
  /\ Self.parent # nullptr
  /\ Result.products # {}

\* C14 as stated: the record a join emits has the id that is the common
\* ancestor of the ids of the joined inputs; with different depths it is the
\* record chosen by more_derived, with equal depths the second argument.
C14_JoinEmitsCommonAncestor ==
  last.op = "join" =>
    /\ Result.id = CommonAncestorId(Self.id, stores[last.other].id)
    /\ level_id_depth(Self.id) = level_id_depth(stores[last.other].id) =>
         last.result = last.other

\* C14 amended: the record a join emits is the deeper of the joined inputs
\* (the one more_derived chooses), its id has the id of every joined input
\* as a prefix, so that the common ancestor of the input ids is the id of the
\* shallower input; with equal depths more_derived returns its second
\* argument.
C14_JoinEmitsMostDerived ==
  last.op = "join" =>
    LET a == Self
        b == stores[last.other]
    IN  /\ last.result \in {last.self, last.other}
        /\ level_id_depth(Result.id) >= level_id_depth(a.id)
        /\ level_id_depth(Result.id) >= level_id_depth(b.id)
        /\ IsPrefix(a.id, Result.id) /\ IsPrefix(b.id, Result.id)
        /\ CommonAncestorId(a.id, b.id) \in {a.id, b.id}
        /\ level_id_depth(a.id) # level_id_depth(b.id) =>
             CommonAncestorId(a.id, b.id) # Result.id
        /\ level_id_depth(a.id) = level_id_depth(b.id) => last.result = last.other

C14_Witness ==
  /\ last.op = "join"
  /\ level_id_depth(Self.id) > level_id_depth(stores[last.other].id)
  /\ last.result = last.self

(***************************************************************************)
(* Python binding: registration of a Python algorithm (modulewrap.cpp)     *)
(***************************************************************************)
MaxCalls == 2

LAYER == "job"

product_query(label) == [label |-> label, layer |-> LAYER]

\* a registered node: ph_module->transform(name, f, concurrency)
\*                      .input_family(queries).output_products(output)
transform(name, f, c, queries, output) ==
  [name |-> name, callable |-> f, concurrency |-> c, inputs |-> queries,
   outputs |-> <<output>>]

scalar_types == {"bool", "int", "unsigned int", "long", "unsigned long", "float", "double"}

\* the converter family the code selects for a scalar annotation
scalar_name(type) ==
  CASE type = "bool" -> "bool"
    [] type = "int" -> "int"
    [] type = "unsigned int" -> "uint"
    [] type = "long" -> "long"
    [] type = "unsigned long" -> "ulong"
    [] type = "float" -> "float"
    [] type = "double" -> "double"

\* str() of a numpy array annotation with the given dtype
ndarray(dtype) == "numpy.ndarray[tuple[int], numpy.dtype[numpy." \o dtype \o "]]"

\* the converter family the code selects for an array or list annotation
\* ("" when it reports the type as unsupported)
vector_name(type) ==
  CASE type = ndarray("uint32") -> "vuint"
    [] type = ndarray("int32") -> "vint"
    [] type = ndarray("uint64") -> "vulong"
    [] type = ndarray("int64") -> "vlong"
    [] type = ndarray("float32") -> "vfloat"
    [] type = ndarray("float64") -> "vdouble"
    [] type = "list[int]" -> "vint"
    [] type = "list[float]" -> "vfloat"
    [] type \in {"list[double]", "list['double']"} -> "vdouble"
    [] OTHER -> ""

INSERT_INPUT_CONVERTER(name, alg, inp) ==
  transform("py" \o name \o "_" \o inp \o "_" \o alg, name \o "_to_py", serial,
            <<product_query(inp)>>, alg \o "_" \o inp \o "py")

INSERT_OUTPUT_CONVERTER(name, alg, outp) ==
  transform(name \o "py_" \o outp \o "_" \o alg, "py_to_" \o name, serial,
            <<product_query("py" \o outp \o "_" \o alg)>>, outp)

\* the array and list branches of insert_input_converters
input_vector_converter(name, cname, inp) ==
  transform("py" \o name \o "_" \o inp \o "_" \o cname, name \o "_to_py", serial,
            <<product_query(inp)>>, cname \o "_" \o inp \o "py")

\* the array and list branches of md_transform
output_vector_converter(name, cname, output) ==
  transform("py" \o name \o "_" \o output \o "_" \o cname, "py_to_" \o name, serial,
            <<product_query("py" \o output \o "_" \o cname)>>, output)

\* what a Python caller passes to md_transform: the callable (whether it is
\* callable, its input annotations in order, its return annotation, "" when
\* it has none), input_family, output_products, concurrency and name
Request(callable, c, name, input_labels, annotations, ret, output_labels) ==
  [callable |-> callable, concurrency |-> c, name |-> name,
   input_labels |-> input_labels, annotations |-> annotations, ret |-> ret,
   output_labels |-> output_labels]

\* parse_args without the check of the number of output labels
parse_args_any_outputs(req) ==
  LET output_types == IF req.ret \in {"", "None"} THEN <<>> ELSE <<req.ret>>
      parsed == [ok |-> TRUE, error |-> "", cname |-> req.name,
                 input_labels |-> req.input_labels, input_types |-> req.annotations,
                 output_labels |-> req.output_labels, output_types |-> output_types]
      failed(msg) == [parsed EXCEPT !.ok = FALSE, !.error = msg]
  IN  IF req.concurrency \notin {"absent", "None"}
        THEN failed("only serial concurrency is supported")
      ELSE IF ~req.callable
        THEN failed("provided algorithm is not callable")
      ELSE IF Len(req.annotations) # Len(req.input_labels)
        THEN failed("number of inputs does not match number of annotation types")
      ELSE parsed

parse_args(req) ==
  LET output_types == IF req.ret \in {"", "None"} THEN <<>> ELSE <<req.ret>>
      parsed == [ok |-> TRUE, error |-> "", cname |-> req.name,
                 input_labels |-> req.input_labels, input_types |-> req.annotations,
                 output_labels |-> req.output_labels, output_types |-> output_types]
      failed(msg) == [parsed EXCEPT !.ok = FALSE, !.error = msg]
  IN  IF req.concurrency \notin {"absent", "None"}
        THEN failed("only serial concurrency is supported")
      ELSE IF ~req.callable
        THEN failed("provided algorithm is not callable")
      ELSE IF Len(req.output_labels) > 1
        THEN failed("only a single output supported")
      ELSE IF Len(req.annotations) # Len(req.input_labels)
        THEN failed("number of inputs does not match number of annotation types")
      ELSE parsed

\* registers the converters of inputs i, i+1, ... and stops at the first
\* input whose type it does not support; what it registered before stays
RECURSIVE insert_input_converters(_, _, _, _, _)
insert_input_converters(reg, cname, input_labels, input_types, i) ==
  IF i > Len(input_labels)
    THEN [ok |-> TRUE, registry |-> reg]
  ELSE IF input_types[i] \in scalar_types
    THEN insert_input_converters(
           Append(reg, INSERT_INPUT_CONVERTER(scalar_name(input_types[i]), cname,
                                              input_labels[i])),
           cname, input_labels, input_types, i + 1)
  ELSE IF vector_name(input_types[i]) # ""
    THEN insert_input_converters(
           Append(reg, input_vector_converter(vector_name(input_types[i]), cname,
                                              input_labels[i])),
           cname, input_labels, input_types, i + 1)
  ELSE [ok |-> FALSE, registry |-> reg]

\* output is what the read of output_labels[0] yields
md_transform(reg, req, output) ==
  LET p == parse_args(req)
      N == Len(p.input_labels)
      conv == insert_input_converters(reg, p.cname, p.input_labels, p.input_types, 1)
      py_out == "py" \o output \o "_" \o p.cname
      py_transform ==
        transform(p.cname, "py_callback", serial,
                  [k \in 1..N |-> product_query(p.cname \o "_" \o p.input_labels[k] \o "py")],
                  py_out)
      with_transform == Append(conv.registry, py_transform)
      output_type == p.output_types[1]
  IN  IF ~p.ok
        THEN [ret |-> "TypeError", error |-> p.error, registry |-> reg]
      ELSE IF p.output_types = <<>>
        THEN [ret |-> "TypeError", error |-> "a transform should have an output type",
              registry |-> reg]
      ELSE IF ~conv.ok
        THEN [ret |-> "TypeError", error |-> "unsupported input type",
              registry |-> conv.registry]
      ELSE IF N \notin 1..3
        THEN [ret |-> "TypeError", error |-> "unsupported number of inputs",
              registry |-> conv.registry]
      ELSE IF output_type \in scalar_types
        THEN [ret |-> "None", error |-> "",
              registry |-> Append(with_transform,
                                  INSERT_OUTPUT_CONVERTER(scalar_name(output_type),
                                                          p.cname, output))]
      ELSE IF vector_name(output_type) # ""
        THEN [ret |-> "None", error |-> "",
              registry |-> Append(with_transform,
                                  output_vector_converter(vector_name(output_type),
                                                          p.cname, output))]
      ELSE [ret |-> "TypeError", error |-> "unsupported output type",
            registry |-> with_transform]

\* md_transform reads output_labels[0] once the arguments are parsed and an
\* output type is known, whether or not an output label was given
reads_output_label(req) == parse_args(req).ok /\ parse_args(req).output_types # <<>>

\* what reading element 0 of an empty vector may yield when it yields a string
UndefinedLabels == {"", "x"}

output_label_read(req) ==
  IF ~reads_output_label(req) THEN {""}
  ELSE IF req.output_labels # <<>> THEN {req.output_labels[1]}
  ELSE UndefinedLabels

Names == {"f", "g"}

Shapes ==
  { [input_labels |-> <<"x">>, annotations |-> <<"int">>, ret |-> "int",
     output_labels |-> <<"out">>],
    [input_labels |-> <<"x", "y">>, annotations |-> <<"int", "list[int]">>, ret |-> "int",
     output_labels |-> <<"out">>],
    [input_labels |-> <<"x", "x">>, annotations |-> <<"int", "int">>, ret |-> "int",
     output_labels |-> <<"out">>],
    [input_labels |-> <<"x", "y", "z">>, annotations |-> <<"int", "float", "unsigned int">>,
     ret |-> "list[int]", output_labels |-> <<"out">>],
    [input_labels |-> <<"x", "y", "z", "w">>, annotations |-> <<"int", "int", "int", "int">>,
     ret |-> "int", output_labels |-> <<"out">>],
    [input_labels |-> <<"x", "y">>, annotations |-> <<"int", "str">>, ret |-> "int",
     output_labels |-> <<"out">>],
    [input_labels |-> <<"x">>, annotations |-> <<ndarray("int32")>>, ret |-> "str",
     output_labels |-> <<"out">>],
    [input_labels |-> <<"x">>, annotations |-> <<"int">>, ret |-> "int",
     output_labels |-> <<>>],
    [input_labels |-> <<"x">>, annotations |-> <<"int">>, ret |-> "int",
     output_labels |-> <<"out", "more">>],
    [input_labels |-> <<"x">>, annotations |-> <<"int">>, ret |-> "None",
     output_labels |-> <<"out">>],
    [input_labels |-> <<"x">>, annotations |-> <<"int">>, ret |-> "",
     output_labels |-> <<"out">>],
    [input_labels |-> <<"x", "y">>, annotations |-> <<"int">>, ret |-> "int",
     output_labels |-> <<"out">>],
    [input_labels |-> <<"x">>, annotations |-> <<"list[int]">>, ret |-> "list[int]",
     output_labels |-> <<"x">>] }

Requests ==
  { Request(TRUE, "absent", name, sh.input_labels, sh.annotations, sh.ret, sh.output_labels) :
      name \in Names, sh \in Shapes }
  \cup { Request(FALSE, "None", "f", <<"x">>, <<"int">>, "int", <<"out">>),
         Request(TRUE, "serial", "f", <<"x">>, <<"int">>, "int", <<"out">>) }

Crashed == pyret = "crash"

MdTransform(req) ==
  /\ ~Crashed
  /\ mdcall.n < MaxCalls
  /\ \E output \in output_label_read(req) :
       LET r == md_transform(registry, req, output)
       IN  /\ registry' = r.registry
           /\ pyret' = r.ret
           /\ mdcall' = [req |-> req, fn |-> "md_transform", before |-> Len(registry),
                         n |-> mdcall.n + 1, output |-> output,
                         indexed |-> reads_output_label(req), error |-> r.error]
  /\ UNCHANGED <<flowVars, regVars, bindVars, storeVars, nodeVars, engineVars, build, invoked>>

\* the read of output_labels[0] of an empty vector may also end the process
MdTransformCrash(req) ==
  /\ ~Crashed
  /\ mdcall.n < MaxCalls
  /\ reads_output_label(req)
  /\ req.output_labels = <<>>
  /\ pyret' = "crash"
  /\ mdcall' = [req |-> req, fn |-> "md_transform", before |-> Len(registry),
                n |-> mdcall.n + 1, output |-> "", indexed |-> TRUE, error |-> ""]
  /\ UNCHANGED <<flowVars, regVars, bindVars, storeVars, nodeVars, engineVars, registry, build, invoked>>

\* ph_module->observe(name, f, concurrency).input_family(queries)
observe(name, f, c, queries) ==
  [name |-> name, callable |-> f, concurrency |-> c, inputs |-> queries, outputs |-> <<>>]

md_observe(reg, req) ==
  LET p == parse_args(req)
      N == Len(p.input_labels)
      conv == insert_input_converters(reg, p.cname, p.input_labels, p.input_types, 1)
      py_observer ==
        observe(p.cname, "py_callback_v", serial,
                [k \in 1..N |-> product_query(p.cname \o "_" \o p.input_labels[k] \o "py")])
  IN  IF ~p.ok
        THEN [ret |-> "TypeError", error |-> p.error, registry |-> reg]
      ELSE IF p.output_types # <<>>
        THEN [ret |-> "TypeError", error |-> "an observer should not have an output type",
              registry |-> reg]
      ELSE IF ~conv.ok
        THEN [ret |-> "TypeError", error |-> "unsupported input type",
              registry |-> conv.registry]
      ELSE IF N \notin 1..3
        THEN [ret |-> "TypeError", error |-> "unsupported number of inputs",
              registry |-> conv.registry]
      ELSE [ret |-> "None", error |-> "", registry |-> Append(conv.registry, py_observer)]

MdObserve(req) ==
  /\ ~Crashed
  /\ mdcall.n < MaxCalls
  /\ LET r == md_observe(registry, req)
     IN  /\ registry' = r.registry
         /\ pyret' = r.ret
         /\ mdcall' = [req |-> req, fn |-> "md_observe", before |-> Len(registry),
                       n |-> mdcall.n + 1, output |-> "", indexed |-> FALSE,
                       error |-> r.error]
  /\ UNCHANGED <<flowVars, regVars, bindVars, storeVars, nodeVars, engineVars, build, invoked>>

ModuleNext ==
  \/ \E req \in Requests : MdTransform(req)
  \/ \E req \in Requests : MdTransformCrash(req)
  \/ \E req \in Requests : MdObserve(req)

ModuleSpec == StoreInit /\ [][ModuleNext]_vars

\* the specifications a registered node emits: its output labels, on the
\* layer of the records it consumes
output_specifications(node) ==
  {[label |-> node.outputs[i], layer |-> node.inputs[1].layer] : i \in DOMAIN node.outputs}

\* the nodes the latest call registered
Introduced == SubSeq(registry, mdcall.before + 1, Len(registry))

\* the nodes among ns whose output specification equals query q
Producers(q, ns) == {k \in DOMAIN ns : q \in output_specifications(ns[k])}

InputConverterFunctions ==
  {name \o "_to_py" : name \in {"bool", "int", "uint", "long", "ulong", "float", "double",
                                 "vint", "vuint", "vlong", "vulong", "vfloat", "vdouble"}}

OutputConverterFunctions ==
  {"py_to_" \o name : name \in {"bool", "int", "uint", "long", "ulong", "float", "double",
                                 "vint", "vuint", "vlong", "vulong", "vfloat", "vdouble"}}

Succeeded ==
  /\ mdcall.n > 0
  /\ mdcall.fn = "md_transform"
  /\ pyret = "None"
  /\ mdcall.req.output_labels # <<>>

\* the registered chain has the shape and the labels the binding documents
ChainShape ==
  LET cname == mdcall.req.name
      labels == mdcall.req.input_labels
      N == Len(labels)
      out == mdcall.req.output_labels[1]
      new == Introduced
  IN  /\ N \in 1..3
      /\ Len(new) = N + 2
      /\ \A k \in 1..N :
           /\ new[k].callable \in InputConverterFunctions
           /\ new[k].inputs = <<[label |-> labels[k], layer |-> "job"]>>
           /\ new[k].outputs = <<cname \o "_" \o labels[k] \o "py">>
      /\ new[N + 1].name = cname
      /\ new[N + 1].callable = "py_callback"
      /\ new[N + 1].inputs =
           [k \in 1..N |-> [label |-> cname \o "_" \o labels[k] \o "py", layer |-> "job"]]
      /\ new[N + 1].outputs = <<"py" \o out \o "_" \o cname>>
      /\ new[N + 2].callable \in OutputConverterFunctions
      /\ new[N + 2].inputs = <<[label |-> "py" \o out \o "_" \o cname, layer |-> "job"]>>
      /\ new[N + 2].outputs = <<out>>

\* every query of the Python transform and of the output converter is
\* answered by exactly one node of the chain
ChainResolves ==
  LET new == Introduced
      N == Len(mdcall.req.input_labels)
  IN  \A i \in (N + 1)..(N + 2) :
        \A j \in DOMAIN new[i].inputs :
          Cardinality(Producers(new[i].inputs[j], new)) = 1

\* C20: a successful md_transform for cname with N inputs (1 <= N <= 3) and
\* output label out registers N input converters, the Python transform and
\* one output converter, wired as a chain: converter k consumes (label k,
\* "job") and produces cname_<label k>py, the transform consumes those N
\* products in label order and produces py<out>_<cname>, the output converter
\* consumes that and produces out, and every query the chain has on its own
\* products is answered by exactly one output of the same call.
C20_ChainIsWired == Succeeded => ChainShape /\ ChainResolves

\* the shape alone holds for every successful call
C20_ChainHasShape == Succeeded => ChainShape

\* with pairwise different input labels the chain also resolves
C20_ChainIsWiredForDistinctLabels ==
  (Succeeded /\ Cardinality({mdcall.req.input_labels[k] :
                               k \in DOMAIN mdcall.req.input_labels})
                  = Len(mdcall.req.input_labels))
    => ChainShape /\ ChainResolves

C20_Witness ==
  /\ Succeeded
  /\ Len(mdcall.req.input_labels) = 3
  /\ Len(Introduced) = 5
  /\ mdcall.before > 0

(***************************************************************************)
(* Graph builder: wiring of the registered nodes before execution          *)
(***************************************************************************)
\* the products the source's providers emit on every record
SourceOutputs == {[label |-> "i", layer |-> "job"], [label |-> "j", layer |-> "job"]}

\* m.with(name, f, c).transform(inputs...).to(output)
declare(name, c, input_labels, output) ==
  transform(name, name, c,
            [k \in DOMAIN input_labels |-> [label |-> input_labels[k], layer |-> "job"]],
            output)

\* the registrations of one successful md_transform call on an empty module
PythonChain(name, input_labels, output) ==
  md_transform(<<>>,
               Request(TRUE, "absent", name, input_labels,
                       [k \in DOMAIN input_labels |-> "int"], "int", <<output>>),
               output).registry

\* groups of declarations a module may be made of
Pool ==
  << <<declare("A", unlimited, <<"x">>, "y")>>,
     <<declare("B", unlimited, <<"y">>, "z")>>,
     <<declare("C", unlimited, <<"z">>, "x")>>,
     <<declare("S", unlimited, <<"w">>, "w")>>,
     <<declare("M", unlimited, <<"missing">>, "v")>>,
     <<declare("add", unlimited, <<"i", "j">>, "sum")>>,
     <<declare("D", unlimited, <<"i">>, "sum")>>,
     PythonChain("f", <<"i">>, "out"),
     PythonChain("g", <<"x">>, "gout") >>

RECURSIVE Chosen(_, _)
Chosen(mask, k) ==
  IF k > Len(Pool) THEN <<>>
  ELSE (IF mask[k] THEN Pool[k] ELSE <<>>) \o Chosen(mask, k + 1)

Modules == {Chosen(mask, 1) : mask \in [1..Len(Pool) -> BOOLEAN]}

\* whether some source provides the product a query asks for
from_source(q) == q \in SourceOutputs

\* edges of the graph: producer p feeds consumer k
Edges(reg) ==
  {<<p, k>> \in (DOMAIN reg) \X (DOMAIN reg) :
     \E j \in DOMAIN reg[k].inputs : p \in Producers(reg[k].inputs[j], reg)}

\* the nodes reached from the nodes of frontier along one or more edges
RECURSIVE ReachedFrom(_, _, _)
ReachedFrom(reg, frontier, reached) ==
  LET succ == {e[2] : e \in {d \in Edges(reg) : d[1] \in frontier}}
  IN  IF succ \subseteq reached THEN reached
      ELSE ReachedFrom(reg, succ \ reached, reached \cup succ)

Reachable(reg, n) == ReachedFrom(reg, {n}, {})

\* the strongly connected component of node n
SCC(reg, n) == {n} \cup {m \in Reachable(reg, n) : n \in Reachable(reg, m)}

NameSet(reg, ns) == {reg[k].name : k \in ns}

duplicate_names(reg) ==
  {[kind |-> "DuplicateName", nodes |-> {reg[k].name}, label |-> ""] :
     k \in {i \in DOMAIN reg : \E m \in DOMAIN reg : m # i /\ reg[m].name = reg[i].name}}

duplicate_specifications(reg) ==
  UNION {{[kind |-> "DuplicateSpecification", nodes |-> NameSet(reg, Producers(sp, reg)),
           label |-> sp.label] :
            sp \in {o \in output_specifications(reg[k]) :
                      \/ Cardinality(Producers(o, reg)) > 1
                      \/ from_source(o)}} : k \in DOMAIN reg}

unresolved_inputs(reg) ==
  UNION {{[kind |-> "UnresolvedInput", nodes |-> {reg[k].name}, label |-> reg[k].inputs[j].label] :
            j \in {i \in DOMAIN reg[k].inputs :
                     /\ Producers(reg[k].inputs[i], reg) = {}
                     /\ ~from_source(reg[k].inputs[i])}} : k \in DOMAIN reg}

ambiguous_inputs(reg) ==
  UNION {{[kind |-> "AmbiguousInput", nodes |-> {reg[k].name}, label |-> reg[k].inputs[j].label] :
            j \in {i \in DOMAIN reg[k].inputs :
                     Cardinality(Producers(reg[k].inputs[i], reg))
                       + (IF from_source(reg[k].inputs[i]) THEN 1 ELSE 0) > 1}} :
           k \in DOMAIN reg}

\* any non-singleton strongly connected component
cycles(reg) ==
  {[kind |-> "CycleDetected", nodes |-> NameSet(reg, SCC(reg, n)), label |-> ""] :
     n \in {k \in DOMAIN reg : Cardinality(SCC(reg, k)) > 1}}

wiring_errors_without_unresolved(reg) ==
  duplicate_names(reg) \cup duplicate_specifications(reg)
    \cup ambiguous_inputs(reg) \cup cycles(reg)

wiring_errors(reg) ==
  duplicate_names(reg) \cup duplicate_specifications(reg) \cup unresolved_inputs(reg)
    \cup ambiguous_inputs(reg) \cup cycles(reg)

graph_build(reg) ==
  [status |-> IF wiring_errors(reg) = {} THEN "ok" ELSE "failed",
   errors |-> wiring_errors(reg)]

\* the builder wires the registered nodes and reports every wiring error
Build ==
  /\ build.status = "unbuilt"
  /\ build' = graph_build(registry)
  /\ UNCHANGED <<flowVars, regVars, bindVars, storeVars, nodeVars, engineVars, registry, pyret, mdcall, invoked>>

\* execution of a built graph: the callable of node k runs once every
\* product it consumes was provided by a source or by a node that ran
Invoke(k) ==
  /\ build.status = "ok"
  /\ k \notin invoked
  /\ \A j \in DOMAIN registry[k].inputs :
       \/ from_source(registry[k].inputs[j])
       \/ Producers(registry[k].inputs[j], registry) \cap invoked # {}
  /\ invoked' = invoked \cup {k}
  /\ UNCHANGED <<flowVars, regVars, bindVars, storeVars, nodeVars, engineVars, registry, pyret, mdcall, build>>

BuilderInit ==
  /\ FlowIdle
  /\ RegIdle
  /\ BindIdle
  /\ stores = <<base>>
  /\ last = NoOp
  /\ NodeIdle
  /\ EngineIdle
  /\ registry \in Modules
  /\ pyret = "none"
  /\ mdcall = NoCall
  /\ build = [status |-> "unbuilt", errors |-> {}]
  /\ invoked = {}

BuilderNext ==
  \/ Build
  \/ \E k \in DOMAIN registry : Invoke(k)

BuilderSpec == BuilderInit /\ [][BuilderNext]_vars

\* some node lies on a path of one or more edges that leads back to it
HasCycle(reg) == \E n \in DOMAIN reg : n \in Reachable(reg, n)

Built == build.status # "unbuilt"

\* C15: every declaration set whose producer/consumer graph contains a cycle
\* is rejected with CycleDetected before any user callable runs; this covers
\* the cycle x->y->z->x and a single node that consumes what it produces.
C15_CyclesRejected ==
  HasCycle(registry) =>
    /\ invoked = {}
    /\ Built => /\ build.status = "failed"
                /\ \E e \in build.errors : e.kind = "CycleDetected"

\* a cycle through two or more nodes is rejected, and the error names them
C15_LongerCyclesRejected ==
  \A n \in DOMAIN registry :
    (\E m \in Reachable(registry, n) : m # n /\ n \in Reachable(registry, m)) =>
      /\ invoked = {}
      /\ Built => \E e \in build.errors :
                    e.kind = "CycleDetected" /\ registry[n].name \in e.nodes

C15_WitnessThreeNodes ==
  /\ Built
  /\ [kind |-> "CycleDetected", nodes |-> {"A", "B", "C"}, label |-> ""] \in build.errors

\* C16: when an input query of a non-source node has no producer whose
\* output specification (label, layer) equals it, the build fails with
\* UnresolvedInput for that node and label, and no callable is invoked.
C16_UnresolvedInputRejected ==
  \A k \in DOMAIN registry : \A j \in DOMAIN registry[k].inputs :
    (/\ ~\E p \in DOMAIN registry :
           \E o \in DOMAIN registry[p].outputs :
             /\ registry[p].outputs[o] = registry[k].inputs[j].label
             /\ registry[p].inputs[1].layer = registry[k].inputs[j].layer
     /\ registry[k].inputs[j] \notin SourceOutputs)
    => /\ invoked = {}
       /\ Built =>
            /\ build.status = "failed"
            /\ [kind |-> "UnresolvedInput", nodes |-> {registry[k].name},
                label |-> registry[k].inputs[j].label] \in build.errors

C16_Witness ==
  /\ Built
  /\ build.status = "failed"
  /\ [kind |-> "UnresolvedInput", nodes |-> {"pyint_x_g"}, label |-> "x"] \in build.errors
  /\ [kind |-> "UnresolvedInput", nodes |-> {"M"}, label |-> "missing"] \in build.errors

(***************************************************************************)
(* Execution of a built graph: cells flow from the source through the      *)
(* registered algorithms                                                   *)
(***************************************************************************)
MaxInFlight == 2

Cells == 0..(NumRecords - 1)

\* the largest value of an int
INT_MAX == 2147483647

\* static_cast<int>(id.number()): numbers an int cannot hold wrap around
last_index(number) ==
  IF number <= INT_MAX THEN number ELSE (number - INT_MAX) - INT_MAX - 2

plus_one(i) == i + 1

plus_101(i) == i + 101

provide_i(number) == number % 2

provide_j(number) == 1 - (number % 2)

\* test::add
add(i, j) == i + j

\* the assertion of the observer "verify"
verify(actual) == actual = 0

\* an algorithm of a job: name, consumed labels, produced label ("" for an
\* observer)
algorithm(name, inputs, output) == [name |-> name, inputs |-> inputs, output |-> output]

Scenarios == {"benchmark", "join"}

\* the algorithms registered in each job, all with unlimited concurrency
Algorithms(sc) ==
  IF sc = "benchmark"
    THEN << algorithm("plus_one", <<"a">>, "b"),
            algorithm("plus_101", <<"a">>, "c"),
            algorithm("sink", <<"b", "c">>, "") >>
    ELSE << algorithm("add", <<"i", "j">>, "sum"),
            algorithm("verify", <<"sum">>, "") >>

\* the products the source puts on cell number n
Provided(sc, n) ==
  IF sc = "benchmark"
    THEN {[label |-> "a", value |-> last_index(n)]}
    ELSE {[label |-> "i", value |-> provide_i(n)], [label |-> "j", value |-> provide_j(n)]}

\* what the callable of an algorithm returns for its arguments
invoke(name, args) ==
  CASE name = "plus_one" -> plus_one(args[1])
    [] name = "plus_101" -> plus_101(args[1])
    [] name = "add" -> add(args[1], args[2])
    [] OTHER -> 0

\* whether the callable of an algorithm fails an assert() on its arguments
assertion_fails(name, args) == name = "verify" /\ ~verify(args[1])

PortKeys(sc) ==
  {<<k, j>> : k \in DOMAIN Algorithms(sc), j \in 1..2} \cap
  UNION {{<<k, j>> : j \in DOMAIN Algorithms(sc)[k].inputs} : k \in DOMAIN Algorithms(sc)}

\* a message with product value v of cell id is sent to every port that
\* consumes label
broadcast(sc, prt, label, id, v) ==
  [key \in DOMAIN prt |->
     IF Algorithms(sc)[key[1]].inputs[key[2]] = label
       THEN prt[key] \cup {[id |-> id, value |-> v]}
       ELSE prt[key]]

RECURSIVE broadcast_all(_, _, _, _)
broadcast_all(sc, prt, products, id) ==
  IF products = {} THEN prt
  ELSE LET p == CHOOSE x \in products : TRUE
       IN  broadcast_all(sc, broadcast(sc, prt, p.label, id, p.value), products \ {p}, id)

\* a join by arrival order: any waiting message is taken for the cell
matching_any(msgs, id) == msgs

\* the messages of a port that belong to cell id: a join is keyed on the
\* record identity
matching(msgs, id) == {m \in msgs : m.id = id}

InFlight ==
  {m.id : m \in UNION {ports[key] : key \in DOMAIN ports}} \cup {a.id : a \in active}

\* the source emits the next cell
Emit ==
  /\ ~aborted
  /\ emitn < NumRecords
  /\ Cardinality(InFlight) < MaxInFlight
  /\ ports' = broadcast_all(scenario, ports, Provided(scenario, emitn), emitn)
  /\ emitn' = emitn + 1
  /\ UNCHANGED <<storeVars, nodeVars, engineVars, graphVars, regVars, bindVars,
                 scenario, ndebug, active, log, aborted>>

\* algorithm k fires on cell id: each of its ports holds a message of that
\* cell; with unlimited concurrency any number of invocations run at once
Start(k, id) ==
  /\ ~aborted
  /\ LET alg == Algorithms(scenario)[k]
         waiting == UNION {ports[<<k, j>>] : j \in DOMAIN alg.inputs}
     IN  \E take \in [DOMAIN alg.inputs -> waiting] :
           /\ \A j \in DOMAIN alg.inputs : take[j] \in matching(ports[<<k, j>>], id)
           /\ ports' = [key \in DOMAIN ports |->
                          IF key[1] = k THEN ports[key] \ {take[key[2]]} ELSE ports[key]]
           /\ LET inv == [node |-> alg.name, id |-> id,
                          args |-> [j \in DOMAIN alg.inputs |-> take[j].value]]
              IN  /\ active' = active \cup {inv}
                  /\ log' = log (+) SetToBag({inv})
  /\ UNCHANGED <<storeVars, nodeVars, engineVars, graphVars, regVars, bindVars,
                 scenario, ndebug, emitn, aborted>>

\* an invocation returns: a transform's product is sent on, on the same cell
Finish(inv) ==
  /\ ~aborted
  /\ inv \in active
  /\ ~assertion_fails(inv.node, inv.args) \/ ndebug
  /\ active' = active \ {inv}
  /\ LET alg == CHOOSE a \in {Algorithms(scenario)[k] : k \in DOMAIN Algorithms(scenario)} :
                  a.name = inv.node
     IN  ports' = IF alg.output = "" THEN ports
                  ELSE broadcast(scenario, ports, alg.output, inv.id,
                                 invoke(inv.node, inv.args))
  /\ UNCHANGED <<storeVars, nodeVars, engineVars, graphVars, regVars, bindVars,
                 scenario, ndebug, emitn, log, aborted>>

\* an assert() that fails in a build that keeps assertions ends the process
Abort(inv) ==
  /\ ~aborted
  /\ inv \in active
  /\ assertion_fails(inv.node, inv.args)
  /\ ~ndebug
  /\ aborted' = TRUE
  /\ UNCHANGED <<storeVars, nodeVars, engineVars, graphVars, regVars, bindVars,
                 scenario, ndebug, emitn, ports, active, log>>

FlowInit ==
  /\ stores = <<base>>
  /\ last = NoOp
  /\ NodeIdle
  /\ EngineIdle
  /\ RegIdle
  /\ BindIdle
  /\ registry = <<>>
  /\ pyret = "none"
  /\ mdcall = NoCall
  /\ build = [status |-> "unbuilt", errors |-> {}]
  /\ invoked = {}
  /\ scenario \in Scenarios
  /\ ndebug \in (IF scenario = "join" THEN BOOLEAN ELSE {TRUE})
  /\ emitn = 0
  /\ ports = [key \in PortKeys(scenario) |-> {}]
  /\ active = {}
  /\ log = EmptyBag
  /\ aborted = FALSE

FlowNext ==
  \/ Emit
  \/ \E k \in DOMAIN Algorithms(scenario), id \in InFlight : Start(k, id)
  \/ \E inv \in active : Finish(inv)
  \/ \E inv \in active : Abort(inv)

FlowSpec == FlowInit /\ [][FlowNext]_vars

\* nothing is left to do: the source is exhausted (or the process ended) and
\* no invocation is running or can start
Quiescent ==
  \/ aborted
  \/ /\ emitn = NumRecords
     /\ active = {}
     /\ \A k \in DOMAIN Algorithms(scenario), id \in InFlight :
          \E j \in DOMAIN Algorithms(scenario)[k].inputs :
            matching(ports[<<k, j>>], id) = {}

\* the invocations of an algorithm logged so far
Logged(name) == {inv \in BagToSet(log) : inv.node = name}

\* how often an algorithm was invoked on a cell, whatever the arguments
Count(name, id) ==
  LET invs == {inv \in Logged(name) : inv.id = id}
  IN  IF invs = {} THEN 0
      ELSE IF \E x \in invs : invs = {x} /\ CopiesIn(x, log) = 1 THEN 1
      ELSE 2

\* C18: with a = the cell's number n, plus_one and plus_101 are each invoked
\* at most once per cell at any time and exactly once when the run is over,
\* on a = n, under every interleaving, and the sink is invoked with exactly
\* the pairs (n + 1, n + 101), once per cell, none lost and none duplicated.
C18_PlusOnePlus101 ==
  scenario = "benchmark" =>
    /\ \A inv \in Logged("plus_one") \cup Logged("plus_101") :
         inv.args = <<inv.id>> /\ inv.id < emitn
    /\ \A inv \in Logged("sink") : inv.args = <<inv.id + 1, inv.id + 101>>
    /\ \A n \in Cells :
         /\ Count("plus_one", n) <= 1
         /\ Count("plus_101", n) <= 1
         /\ Count("sink", n) <= 1
         /\ Count("sink", n) = 1 =>
              /\ Count("plus_one", n) = 1 /\ Count("plus_101", n) = 1
              /\ ~\E a \in active : a.id = n /\ a.node # "sink"
    /\ Quiescent =>
         \A n \in Cells :
           Count("plus_one", n) = 1 /\ Count("plus_101", n) = 1 /\ Count("sink", n) = 1

C18_Witness ==
  /\ scenario = "benchmark"
  /\ Quiescent
  /\ \A n \in Cells : [node |-> "sink", id |-> n, args |-> <<n + 1, n + 101>>] \in Logged("sink")

\* two cells are in progress at once and the later one is ahead
C18_WitnessOverlap ==
  /\ scenario = "benchmark"
  /\ \E a \in active, b \in active : a.node = "plus_one" /\ b.node = "plus_101" /\ a.id < b.id
  /\ \E inv \in Logged("sink") : \E a \in active : a.id < inv.id

\* add and the observer pair and order the products of a cell correctly
JoinByIdentity ==
  /\ \A inv \in Logged("add") : inv.args = <<provide_i(inv.id), provide_j(inv.id)>>
  /\ \A inv \in Logged("verify") :
       /\ inv.args = <<provide_i(inv.id) + provide_j(inv.id)>>
       /\ inv.args = <<1>>
       /\ Count("add", inv.id) = 1
       /\ ~\E a \in active : a.node = "add" /\ a.id = inv.id
  /\ \A n \in Cells : Count("add", n) <= 1 /\ Count("verify", n) <= 1

\* C19: in the two-input join add is invoked once per cell with the i and j
\* of that cell, and the observer on sum is invoked exactly once per cell,
\* only after add produced sum for it, with the value i + j, which is 1 for
\* the providers i = n % 2 and j = 1 - n % 2.
C19_TwoInputJoin ==
  scenario = "join" =>
    /\ JoinByIdentity
    /\ Quiescent => \A n \in Cells : Count("add", n) = 1 /\ Count("verify", n) = 1

\* the pairing and the values hold in every build
C19_JoinPairsSameCell == scenario = "join" => JoinByIdentity

\* in a build that compiles assert() out every cell is added and observed
C19_TwoInputJoinWithoutAssert == ndebug => C19_TwoInputJoin

C19_WitnessAborted ==
  /\ scenario = "join"
  /\ aborted
  /\ \E inv \in Logged("verify") : inv.args = <<1>>

(***************************************************************************)
(* Registration of plain functions: how a callable takes its arguments     *)
(***************************************************************************)
product_names == <<"number", "temperature", "name">>

oproduct_names == <<"number", "temperature", "name">>

\* the callables of the test and the way each takes its three parameters
Callables ==
  {"no_framework", "no_framework_all_refs", "no_framework_all_ptrs",
   "one_framework_arg", "all_framework_args"}

parameters(f) ==
  CASE f = "no_framework" -> <<"value", "value", "ref">>
    [] f = "no_framework_all_refs" -> <<"ref", "ref", "ref">>
    [] f = "no_framework_all_ptrs" -> <<"ptr", "ptr", "ptr">>
    [] f = "one_framework_arg" -> <<"handle", "value", "ref">>
    [] f = "all_framework_args" -> <<"handle", "handle", "handle">>
    [] f = "verify_results" -> <<"value", "value", "ref">>

\* the values the test stores, and other values of the same products
stored_value(label) ==
  CASE label = "number" -> "3" [] label = "temperature" -> "98.5" [] label = "name" -> "John"

other_value(label) ==
  CASE label = "number" -> "4" [] label = "temperature" -> "37.0" [] label = "name" -> "Jane"

no_value == ""

\* an argument taken from the store itself, without the walk to the ancestors
argument_from_inbound(mode, heap, pay, s, label) ==
  IF mode = "value"
    THEN [mode |-> mode, value |-> pay[s][label], store |-> nullptr, label |-> label]
    ELSE [mode |-> mode, value |-> no_value, store |-> s, label |-> label]

\* the engine extracts an argument by walking the inbound record upward for
\* the label: a copy of the value for a parameter taken by value, the place
\* of the stored value for a reference, a pointer or a handle
argument(mode, heap, pay, s, label) ==
  LET holder == store_for_product(heap, s, label)
  IN  IF mode = "value"
        THEN [mode |-> mode, value |-> pay[holder][label], store |-> nullptr, label |-> label]
        ELSE [mode |-> mode, value |-> no_value, store |-> holder, label |-> label]

\* what the body of a callable reads from a parameter: num, *num
read(arg, pay) == IF arg.mode = "value" THEN arg.value ELSE pay[arg.store][arg.label]

\* every callable of the test returns make_tuple of its three parameters
make_tuple(args, pay) == [k \in DOMAIN args |-> read(args[k], pay)]

\* the base store and a child record, holding the products in P1 and P2
RegHeap(P1, P2) ==
  LET b == product_store(nullptr, level_id_base, "", "process", P1)
  IN  <<b, make_child(<<b>>, 1, 0, "event", "src", P2)>>

RegPayload(P1, P2) ==
  << [label \in {"number", "temperature", "name"} |->
        IF label \in P1 THEN stored_value(label) ELSE no_value],
     [label \in {"number", "temperature", "name"} |->
        IF label \in P2 THEN other_value(label) ELSE no_value] >>

RegInit ==
  /\ last = NoOp
  /\ NodeIdle
  /\ EngineIdle
  /\ FlowIdle
  /\ BindIdle
  /\ registry = <<>>
  /\ pyret = "none"
  /\ mdcall = NoCall
  /\ build = [status |-> "unbuilt", errors |-> {}]
  /\ invoked = {}
  /\ \E P1 \in SUBSET {"number", "temperature", "name"},
        P2 \in SUBSET {"number", "temperature", "name"} :
       /\ stores = RegHeap(P1, P2)
       /\ payload = RegPayload(P1, P2)
  /\ callee \in Callables
  /\ inbound \in 1..2
  /\ \A k \in DOMAIN product_names :
       store_for_product_from(stores, inbound, product_names[k]) # nullptr
  /\ targs = <<>>
  /\ tseen = <<>>
  /\ oseen = <<>>

\* the transform fires on the inbound record
TransformInvoke ==
  /\ targs = <<>>
  /\ targs' = [k \in DOMAIN product_names |->
                 argument(parameters(callee)[k], stores, payload, inbound, product_names[k])]
  /\ UNCHANGED <<bindVars, storeVars, nodeVars, engineVars, graphVars, flowVars,
                 payload, callee, inbound, tseen, oseen>>

\* the callable returns; its results go to a continuation of the inbound
\* record under oproduct_names
TransformReturn ==
  /\ targs # <<>>
  /\ tseen = <<>>
  /\ tseen' = make_tuple(targs, payload)
  /\ stores' = Append(stores, make_continuation(stores, inbound, callee,
                                                {oproduct_names[k] : k \in DOMAIN oproduct_names}))
  /\ payload' = Append(payload,
                       [label \in {"number", "temperature", "name"} |->
                          LET k == CHOOSE i \in DOMAIN oproduct_names : oproduct_names[i] = label
                          IN  make_tuple(targs, payload)[k]])
  /\ UNCHANGED <<bindVars, last, nodeVars, engineVars, graphVars, flowVars,
                 callee, inbound, targs, oseen>>

\* the observer downstream of the transform fires, on the record the source
\* emitted or on the continuation the transform emitted
ObserverInvoke(s) ==
  /\ tseen # <<>>
  /\ oseen = <<>>
  /\ s \in {inbound, Len(stores)}
  /\ oseen' = make_tuple([k \in DOMAIN product_names |->
                            argument(parameters("verify_results")[k], stores, payload, s,
                                     product_names[k])],
                         payload)
  /\ UNCHANGED <<bindVars, storeVars, nodeVars, engineVars, graphVars, flowVars,
                 payload, callee, inbound, targs, tseen>>

RegNext ==
  \/ TransformInvoke
  \/ TransformReturn
  \/ \E s \in 1..Len(stores) : ObserverInvoke(s)

RegSpec == RegInit /\ [][RegNext]_vars

\* the value stored under a label in the inbound record or, when it does not
\* hold the label, in its nearest ancestor that does
NearestValue(label) ==
  LET holders == {d \in 0..PathLen(inbound) :
                    contains_product(stores[Ancestor(stores, inbound, d)], label)}
      nearest == CHOOSE d \in holders : \A e \in holders : d <= e
  IN  payload[Ancestor(stores, inbound, nearest)][label]

\* C17: whatever way the callable takes its arguments (by value, const
\* reference, const pointer, handle or a mix), it receives the values stored
\* under the declared labels in the record or its nearest ancestor holding
\* them, and the observer downstream is invoked with exactly those values.
C17_SameValuesHoweverTaken ==
  /\ tseen # <<>> =>
       \A k \in DOMAIN product_names : tseen[k] = NearestValue(product_names[k])
  /\ oseen # <<>> =>
       \A k \in DOMAIN product_names : oseen[k] = NearestValue(product_names[k])

C17_Witness ==
  /\ oseen # <<>>
  /\ callee = "one_framework_arg"
  /\ inbound = 2
  /\ contains_product(stores[1], "number") /\ contains_product(stores[2], "number")
  /\ ~contains_product(stores[2], "name")
  /\ oseen = <<"4", "98.5", "John">>

\* the test itself: all products in the base store, taken by pointer
C17_WitnessTest ==
  /\ oseen = <<"3", "98.5", "John">>
  /\ inbound = 1
  /\ callee = "no_framework_all_ptrs"

(***************************************************************************)
(* Python binding: what a failed registration leaves behind                *)
(***************************************************************************)
Called == mdcall.n > 0 /\ ~Crashed

HasReturnType(req) == req.ret \notin {"", "None"}

\* the request is one the binding rejects before it registers anything
InvalidAtParseTime ==
  \/ mdcall.req.concurrency \notin {"absent", "None"}
  \/ ~mdcall.req.callable
  \/ Len(mdcall.req.output_labels) > 1
  \/ Len(mdcall.req.annotations) # Len(mdcall.req.input_labels)
  \/ mdcall.fn = "md_transform" /\ ~HasReturnType(mdcall.req)
  \/ mdcall.fn = "md_observe" /\ HasReturnType(mdcall.req)

C21_WitnessOutputs ==
  /\ Called
  /\ mdcall.fn = "md_transform"
  /\ Len(mdcall.req.output_labels) > 1
  /\ pyret = "TypeError"

\* C24: when md_transform or md_observe returns an error, the nodes
\* registered in the module are those registered before the call.
C24_ErrorRegistersNothing ==
  (Called /\ pyret = "TypeError") => Len(registry) = mdcall.before

\* the registry only grows, so its length tells whether a call changed it
C24_RegistryOnlyGrows ==
  [][Len(registry') >= Len(registry)
       /\ SubSeq(registry', 1, Len(registry)) = registry]_vars

\* an error raised while the arguments are parsed leaves the registry alone
C24_EarlyErrorRegistersNothing ==
  (Called /\ pyret = "TypeError"
     /\ mdcall.error \notin {"unsupported input type", "unsupported number of inputs",
                             "unsupported output type"})
    => Len(registry) = mdcall.before

NamesOf(ns) == {ns[k].name : k \in DOMAIN ns}

\* C25: the algorithm names and the output labels the binding generates are
\* pairwise distinct within one md_transform call, also when two inputs
\* share a label or an input label equals the output label, and across
\* calls that register different algorithms.
C25_GeneratedNamesDistinct ==
  (Called /\ mdcall.fn = "md_transform" /\ pyret = "None" /\ mdcall.req.output_labels # <<>>) =>
    LET new == Introduced
        old == SubSeq(registry, 1, mdcall.before)
    IN  /\ \A i \in DOMAIN new : \A j \in DOMAIN new :
              i # j => /\ new[i].name # new[j].name
                       /\ new[i].outputs # new[j].outputs
        /\ (\A k \in DOMAIN old : old[k].name # mdcall.req.name) =>
              NamesOf(new) \cap NamesOf(old) = {}

\* with input labels that differ from each other and from the output label
\* the generated names and labels are distinct
C25_DistinctForDistinctLabels ==
  (Called /\ mdcall.fn = "md_transform" /\ pyret = "None" /\ mdcall.req.output_labels # <<>>
     /\ mdcall.before = 0
     /\ Cardinality({mdcall.req.input_labels[k] : k \in DOMAIN mdcall.req.input_labels}
                      \cup {mdcall.req.output_labels[1]})
          = Len(mdcall.req.input_labels) + 1) =>
    \A i \in DOMAIN Introduced : \A j \in DOMAIN Introduced :
      i # j => /\ Introduced[i].name # Introduced[j].name
               /\ Introduced[i].outputs # Introduced[j].outputs

\* C29: md_transform reads output_labels[0] only when an output label was
\* supplied; a call with a return annotation and no output label ends in an
\* error return and never indexes the empty list.
C29_NoReadOfEmptyLabels ==
  (mdcall.n > 0 /\ mdcall.fn = "md_transform" /\ mdcall.req.output_labels = <<>>
     /\ HasReturnType(mdcall.req)) =>
    /\ ~mdcall.indexed
    /\ pyret = "TypeError"

\* with an output label the read is within the list
C29_ReadWithinLabels ==
  (mdcall.n > 0 /\ mdcall.indexed /\ mdcall.req.output_labels # <<>>) =>
    mdcall.output = mdcall.req.output_labels[1]

(***************************************************************************)
(* Python binding: py_callback objects, the GIL and the calls into Python  *)
(***************************************************************************)
MaxObjs == 2

MaxRefs == 3

MaxArgs == 2

Slots == 1..MaxObjs

PyCallables == {"fa", "fb"}

\* the thread that runs the registration (md_transform is called by the
\* interpreter) and a worker thread of the scheduler's pool
Threads == {"interpreter", "worker"}

\* whether a thread holds the GIL when it enters a function of the binding
caller_holds_gil(t) == t = "interpreter"

\* PyGILRAII gil: PyGILState_Ensure() in the constructor, so the thread
\* holds the GIL until the end of the scope, whoever the caller is
PyGILRAII(t) == TRUE

\* the objects handed to a callback: a Python number and the lifeline object
\* a vector converter returns, whose m_view is a numpy view
PyObjects == {"number", "lifeline"}

Py_TYPE(o) ==
  CASE o = "lifeline" -> "PhlexLifeline_Type"
    [] o = "view" -> "numpy.ndarray"
    [] OTHER -> "int"

m_view(o) == "view"

lifeline_transform(arg) ==
  IF Py_TYPE(arg) = "PhlexLifeline_Type" THEN m_view(arg) ELSE arg

ArgLists == UNION { [1..n -> PyObjects] : n \in 1..MaxArgs }

\* the arguments py_callback::call hands to PyObject_CallFunctionObjArgs
call_arguments(args) == [k \in DOMAIN args |-> lifeline_transform(args[k])]

\* the arguments py_callback::callv hands to PyObject_CallFunctionObjArgs
callv_arguments(args) == args

\* py_callback::callv, given what PyObject_CallFunctionObjArgs returned and
\* the error it left behind
callv(pyresult, err) ==
  LET error_msg == IF pyresult = "NULL"
                   THEN IF ~msg_from_py_error(err).ok
                        THEN "Unknown python error"
                        ELSE msg_from_py_error(err).msg
                   ELSE ""
  IN  IF error_msg # ""
      THEN [kind |-> "throw", what |-> error_msg, value |-> "void"]
      ELSE [kind |-> "return", what |-> "", value |-> "void"]

Live(s) == cbs[s] # "dead"

LiveOn(c) == {s \in Slots : cbs[s] = c}

\* py_callback(PyObject const* callable), constructed in md_transform
Construct(s, c) ==
  /\ ~Live(s)
  /\ refs[c] < MaxRefs
  /\ refs' = [refs EXCEPT ![c] = @ + 1]
  /\ cbs' = [cbs EXCEPT ![s] = c]
  /\ touch' = [NoTouch EXCEPT !.op = "construct", !.thread = "interpreter",
                              !.gil = caller_holds_gil("interpreter")]
  /\ UNCHANGED <<flowVars, regVars, graphVars, storeVars, nodeVars, engineVars, conversion>>

\* py_callback(py_callback const& pc)
CopyConstruct(t, s, pc) ==
  /\ ~Live(s)
  /\ Live(pc)
  /\ refs[cbs[pc]] < MaxRefs
  /\ refs' = [refs EXCEPT ![cbs[pc]] = @ + 1]
  /\ cbs' = [cbs EXCEPT ![s] = cbs[pc]]
  /\ touch' = [NoTouch EXCEPT !.op = "copy", !.thread = t, !.gil = caller_holds_gil(t)]
  /\ UNCHANGED <<flowVars, regVars, graphVars, storeVars, nodeVars, engineVars, conversion>>

\* py_callback& operator=(py_callback const& pc)
CopyAssign(t, s, pc) ==
  /\ Live(s)
  /\ Live(pc)
  /\ refs[cbs[pc]] < MaxRefs
  /\ IF s # pc
     THEN /\ refs' = [refs EXCEPT ![cbs[pc]] = @ + 1]
          /\ cbs' = [cbs EXCEPT ![s] = cbs[pc]]
          /\ touch' = [NoTouch EXCEPT !.op = "assign", !.thread = t,
                                      !.gil = caller_holds_gil(t)]
     ELSE /\ UNCHANGED <<refs, cbs>>
          /\ touch' = NoTouch
  /\ UNCHANGED <<flowVars, regVars, graphVars, storeVars, nodeVars, engineVars, conversion>>

\* ~py_callback()
Destroy(t, s) ==
  /\ Live(s)
  /\ refs' = [refs EXCEPT ![cbs[s]] = @ - 1]
  /\ cbs' = [cbs EXCEPT ![s] = "dead"]
  /\ touch' = [NoTouch EXCEPT !.op = "destroy", !.thread = t, !.gil = caller_holds_gil(t)]
  /\ UNCHANGED <<flowVars, regVars, graphVars, storeVars, nodeVars, engineVars, conversion>>

\* py_callback::call(args...), the body of a Python transform
Call(t, s, args, pyresult, err) ==
  /\ Live(s)
  /\ LET r == call(pyresult, err)
     IN  touch' = [op |-> "call", thread |-> t, gil |-> PyGILRAII(t), args |-> args,
                   received |-> call_arguments(args), pyresult |-> pyresult,
                   kind |-> r.kind, what |-> r.what, value |-> r.value]
  /\ UNCHANGED <<flowVars, regVars, graphVars, storeVars, nodeVars, engineVars,
                 cbs, refs, conversion>>

\* py_callback::callv(args...), the body of a Python observer
Callv(t, s, args, pyresult, err) ==
  /\ Live(s)
  /\ LET r == callv(pyresult, err)
     IN  touch' = [op |-> "callv", thread |-> t, gil |-> PyGILRAII(t), args |-> args,
                   received |-> callv_arguments(args), pyresult |-> pyresult,
                   kind |-> r.kind, what |-> r.what, value |-> r.value]
  /\ UNCHANGED <<flowVars, regVars, graphVars, storeVars, nodeVars, engineVars,
                 cbs, refs, conversion>>

\* PyObjectDeleter::operator()(p), run when the last PyObjectPtr to p dies
Delete(t, ptr) ==
  /\ touch' = [NoTouch EXCEPT !.op = "PyObjectDeleter", !.thread = t,
                              !.gil = IF ptr # "NULL" THEN PyGILRAII(t)
                                      ELSE caller_holds_gil(t),
                              !.value = ptr]
  /\ UNCHANGED <<flowVars, regVars, graphVars, storeVars, nodeVars, engineVars,
                 cbs, refs, conversion>>

CallbackInit ==
  /\ stores = <<base>>
  /\ last = NoOp
  /\ NodeIdle
  /\ EngineIdle
  /\ FlowIdle
  /\ RegIdle
  /\ registry = <<>>
  /\ pyret = "none"
  /\ mdcall = NoCall
  /\ build = [status |-> "unbuilt", errors |-> {}]
  /\ invoked = {}
  /\ cbs = [s \in Slots |-> "dead"]
  /\ refs = [c \in PyCallables |-> 0]
  /\ touch = NoTouch
  /\ conversion = NoConversion

CallOutcomes ==
  {<<"obj", [fetched |-> FALSE, msg |-> ""]>>} \cup {<<"NULL", err>> : err \in PyErrs}

CallbackNext ==
  \/ \E s \in Slots, c \in PyCallables : Construct(s, c)
  \/ \E t \in Threads, s \in Slots, pc \in Slots : CopyConstruct(t, s, pc)
  \/ \E t \in Threads, s \in Slots, pc \in Slots : CopyAssign(t, s, pc)
  \/ \E t \in Threads, s \in Slots : Destroy(t, s)
  \/ \E t \in Threads, s \in Slots, args \in ArgLists, o \in CallOutcomes :
       Call(t, s, args, o[1], o[2])
  \/ \E t \in Threads, s \in Slots, args \in ArgLists, o \in CallOutcomes :
       Callv(t, s, args, o[1], o[2])
  \/ \E t \in Threads, ptr \in {"NULL", "obj"} : Delete(t, ptr)

CallbackSpec == CallbackInit /\ [][CallbackNext]_vars

CallbackLive == cbs # <<>>

\* C22: whenever an argument passed to a registered Python function is a
\* lifeline object, the function receives the lifeline's numpy view (m_view)
\* and not the lifeline object, for Python transforms (call) and for Python
\* observers (callv) alike.
C22_LifelineViewIsPassed ==
  (CallbackLive /\ touch.op \in {"call", "callv"}) =>
    \A k \in DOMAIN touch.args :
      Py_TYPE(touch.args[k]) = "PhlexLifeline_Type" =>
        /\ touch.received[k] = m_view(touch.args[k])
        /\ Py_TYPE(touch.received[k]) # "PhlexLifeline_Type"

\* a Python transform receives the view
C22_TransformReceivesView ==
  (CallbackLive /\ touch.op = "call") =>
    \A k \in DOMAIN touch.args :
      Py_TYPE(touch.args[k]) = "PhlexLifeline_Type" =>
        touch.received[k] = m_view(touch.args[k])

\* C26: after any sequence of construction, copy construction, copy
\* assignment and destruction of py_callback objects, the number of
\* references the callbacks hold on each Python callable equals the number of
\* live py_callback objects pointing to it; copy assignment releases the
\* reference held before the assignment.
C26_RefsMatchLiveCallbacks ==
  CallbackLive => \A c \in PyCallables : refs[c] = Cardinality(LiveOn(c))

\* the callbacks never hold fewer references than there are live objects
C26_RefsCoverLiveCallbacks ==
  CallbackLive => \A c \in PyCallables : refs[c] >= Cardinality(LiveOn(c))

\* C27: every call into Python and every change of a reference count made
\* by the binding (call, callv, PyObjectDeleter, the py_callback constructor,
\* copy and destructor) happens while the executing thread holds the GIL.
C27_PythonTouchedUnderGIL ==
  (CallbackLive /\ touch.op # "none"
     /\ ~(touch.op = "PyObjectDeleter" /\ touch.value = "NULL")) => touch.gil

\* call, callv and PyObjectDeleter take the GIL themselves
C27_GuardedOperationsHoldGIL ==
  (CallbackLive /\ (\/ touch.op \in {"call", "callv"}
                    \/ touch.op = "PyObjectDeleter" /\ touch.value # "NULL")) => touch.gil

\* C28: call and callv throw std::runtime_error whenever the Python call
\* returns NULL, whatever error message is retrieved (also an empty one), so
\* call never returns a null result.
C28_NullResultThrows ==
  (CallbackLive /\ touch.op \in {"call", "callv"}) =>
    /\ (touch.pyresult = "NULL" => touch.kind = "throw")
    /\ ((touch.op = "call" /\ touch.kind = "return") => touch.value # "NULL")

\* a failed call whose error message is not empty throws
C28_NullResultWithMessageThrows ==
  (CallbackLive /\ touch.op \in {"call", "callv"} /\ touch.pyresult = "NULL"
     /\ touch.kind # "throw") => touch.what = ""

(***************************************************************************)
(* Python binding: conversion of scalar values (LP64: long is twice int)   *)
(***************************************************************************)
\* width of int in the model; long has twice that width
IntBits == 3

LongBits == 2 * IntBits

RECURSIVE Pow2(_)
Pow2(n) == IF n = 0 THEN 1 ELSE 2 * Pow2(n - 1)

CTypes == {"bool", "int", "unsigned int", "long", "unsigned long"}

bits(T) ==
  CASE T = "bool" -> 1
    [] T \in {"int", "unsigned int"} -> IntBits
    [] T \in {"long", "unsigned long"} -> LongBits

is_signed(T) == T \in {"int", "long"}

min_of(T) == IF is_signed(T) THEN -Pow2(bits(T) - 1) ELSE 0

max_of(T) == IF is_signed(T) THEN Pow2(bits(T) - 1) - 1 ELSE Pow2(bits(T)) - 1

Values(T) == min_of(T)..max_of(T)

\* (T)n: any nonzero value converts to true; integers wrap to the width of T
static_cast(T, n) ==
  IF T = "bool" THEN (IF n = 0 THEN 0 ELSE 1)
  ELSE LET m == n % Pow2(bits(T))
       IN  IF is_signed(T) /\ m > max_of(T) THEN m - Pow2(bits(T)) ELSE m

\* Python objects: bool and int hold an integer of any size, a float holds
\* its value counted in halves, a str holds no number
PyBool(b) == [type |-> "bool", value |-> b]

PyInt(n) == [type |-> "int", value |-> n]

PyFloat(h) == [type |-> "float", value |-> h]

PyStr == [type |-> "str", value |-> 0]

PyLong_Check(o) == o.type \in {"int", "bool"}

PyFloat_Check(o) == o.type = "float"

PyBool_FromLong(l) == PyBool(IF l # 0 THEN 1 ELSE 0)

PyLong_FromLong(l) == PyInt(l)

PyLong_FromUnsignedLong(ul) == PyInt(ul)

\* the Python C API conversions: the value returned and the error set
PyLong_AsLong(o) ==
  IF ~PyLong_Check(o) THEN [value |-> -1, err |-> "TypeError"]
  ELSE IF o.value \in Values("long") THEN [value |-> o.value, err |-> "none"]
  ELSE [value |-> -1, err |-> "OverflowError"]

PyLong_AsUnsignedLong(o) ==
  IF ~PyLong_Check(o) THEN [value |-> static_cast("unsigned long", -1), err |-> "TypeError"]
  ELSE IF o.value \in Values("unsigned long") THEN [value |-> o.value, err |-> "none"]
  ELSE [value |-> static_cast("unsigned long", -1), err |-> "OverflowError"]

pylong_as_bool(o) ==
  LET l == PyLong_AsLong(o)
  IN  IF ~(l.value = 0 \/ l.value = 1) \/ PyFloat_Check(o)
      THEN [value |-> static_cast("bool", -1), err |-> "ValueError"]
      ELSE [value |-> static_cast("bool", l.value), err |-> l.err]

pylong_as_strictlong(o) ==
  IF ~PyLong_Check(o)
  THEN [value |-> static_cast("long", -1), err |-> "TypeError"]
  ELSE PyLong_AsLong(o)

pylong_or_int_as_ulong(o) ==
  IF PyFloat_Check(o)
  THEN [value |-> static_cast("unsigned long", -1), err |-> "TypeError"]
  ELSE LET ul == PyLong_AsUnsignedLong(o)
       IN  IF ul.value = static_cast("unsigned long", -1) /\ ul.err # "none" /\ PyLong_Check(o)
           THEN LET i == PyLong_AsLong(o)
                IN  IF 0 <= i.value
                    THEN [value |-> static_cast("unsigned long", i.value), err |-> i.err]
                    ELSE [value |-> static_cast("unsigned long", -1), err |-> "ValueError"]
           ELSE ul

\* T_to_py for unsigned long made with PyLong_FromLong like the other types
T_to_py_signed(T, a) ==
  IF T = "bool" THEN PyBool_FromLong(a) ELSE PyLong_FromLong(static_cast("long", a))

\* bool_to_py, int_to_py, uint_to_py, long_to_py, ulong_to_py
T_to_py(T, a) ==
  CASE T = "bool" -> PyBool_FromLong(a)
    [] T \in {"int", "unsigned int", "long"} -> PyLong_FromLong(static_cast("long", a))
    [] T = "unsigned long" -> PyLong_FromUnsignedLong(a)

frompy(T, o) ==
  CASE T = "bool" -> pylong_as_bool(o)
    [] T = "int" -> PyLong_AsLong(o)
    [] T = "unsigned int" -> pylong_or_int_as_ulong(o)
    [] T = "long" -> pylong_as_strictlong(o)
    [] T = "unsigned long" -> pylong_or_int_as_ulong(o)

\* py_to_bool, py_to_int, py_to_uint, py_to_long, py_to_ulong: the value
\* returned and the Python error left pending; nothing is thrown
py_to_T(T, o) ==
  [value |-> static_cast(T, frompy(T, o).value), err |-> frompy(T, o).err,
   thrown |-> FALSE]

\* what a Python callable can return: small and large integers, bools,
\* floats and a str
PyReturned ==
  {PyInt(n) : n \in (-Pow2(LongBits))..Pow2(LongBits)}
    \cup {PyBool(b) : b \in 0..1}
    \cup {PyFloat(h) : h \in {-3, 0, 1, 2, 5}}
    \cup {PyStr}

\* a C++ value handed to an input converter
Drawn(T, v) == [NoConversion EXCEPT !.op = "drawn", !.type = T, !.v = v]

\* a Python object returned to an output converter
Returned(T, o) == [NoConversion EXCEPT !.op = "returned", !.type = T, !.obj = o]

\* py_to_T(T_to_py(v))
RoundTrip ==
  /\ conversion.op = "drawn"
  /\ LET T == conversion.type
         v == conversion.v
         r == py_to_T(T, T_to_py(T, v))
     IN  conversion' = [op |-> "roundtrip", type |-> T, v |-> v, obj |-> T_to_py(T, v),
                        back |-> r.value, err |-> r.err,
                        emitted |-> FALSE, thrown |-> FALSE]
  /\ UNCHANGED <<flowVars, regVars, graphVars, storeVars, nodeVars, engineVars,
                 cbs, refs, touch>>

\* the output converter node of a chain: its body is py_to_T, and what the
\* body returns is the product of the record
OutputConvert ==
  /\ conversion.op = "returned"
  /\ LET T == conversion.type
         o == conversion.obj
         r == py_to_T(T, o)
     IN  conversion' = [op |-> "output", type |-> T, v |-> 0, obj |-> o,
                        back |-> r.value, err |-> r.err,
                        emitted |-> ~r.thrown, thrown |-> r.thrown]
  /\ UNCHANGED <<flowVars, regVars, graphVars, storeVars, nodeVars, engineVars,
                 cbs, refs, touch>>

ConvInit ==
  /\ stores = <<base>>
  /\ last = NoOp
  /\ NodeIdle
  /\ EngineIdle
  /\ FlowIdle
  /\ RegIdle
  /\ registry = <<>>
  /\ pyret = "none"
  /\ mdcall = NoCall
  /\ build = [status |-> "unbuilt", errors |-> {}]
  /\ invoked = {}
  /\ cbs = <<>>
  /\ refs = <<>>
  /\ touch = NoTouch
  /\ \/ \E T \in CTypes : \E v \in Values(T) : conversion = Drawn(T, v)
     \/ \E T \in CTypes : \E o \in PyReturned : conversion = Returned(T, o)

ConvNext ==
  \/ RoundTrip
  \/ OutputConvert

ConvSpec == ConvInit /\ [][ConvNext]_vars

\* C23: for bool, int, unsigned int, long and unsigned long, converting a
\* C++ value to Python and back returns the same value, py_to_T(T_to_py(v))
\* = v for every v of type T, with no Python error raised.
C23_RoundTrip ==
  conversion.op = "roundtrip" =>
    /\ conversion.back = conversion.v
    /\ conversion.err = "none"

C23_Witness ==
  /\ conversion.op = "roundtrip"
  /\ conversion.type = "unsigned long"
  /\ conversion.v = Pow2(LongBits) - 1
  /\ conversion.obj = PyInt(Pow2(LongBits) - 1)
  /\ conversion.back = conversion.v

C23_WitnessUnsignedInt ==
  /\ conversion.op = "roundtrip"
  /\ conversion.type = "unsigned int"
  /\ conversion.v = Pow2(IntBits) - 1
  /\ conversion.back = conversion.v

\* the conversions the binding documents as failing
ConversionFails(T, o) ==
  \/ T = "bool" /\ (o.type = "float" \/ (o.type \in {"int", "bool"} /\ o.value \notin {0, 1}))
  \/ T = "long" /\ o.type \notin {"int", "bool"}
  \/ T \in {"unsigned int", "unsigned long"}
       /\ (o.type = "float" \/ (o.type \in {"int", "bool"} /\ o.value < 0))

\* C30: when the conversion of a Python return value to its C++ product
\* type fails, the output converter emits no product value for the record:
\* the failure is an error of the invocation, never a stored sentinel value.
C30_FailedConversionEmitsNothing ==
  (conversion.op = "output" /\ ConversionFails(conversion.type, conversion.obj)) =>
    /\ ~conversion.emitted
    /\ conversion.thrown

\* a failed conversion leaves a Python error pending and returns (T)-1
C30_FailedConversionReturnsSentinel ==
  (conversion.op = "output" /\ ConversionFails(conversion.type, conversion.obj)) =>
    /\ conversion.err # "none"
    /\ conversion.back = static_cast(conversion.type, -1)

====
